---- MODULE Spec2Model ----
(***************************************************************************)
(* LU-Toolbox-Standalone: the batch orchestrator (lu_batch.py) and the     *)
(* in-host pipeline driver (lu_batch_driver.py) as state machines.         *)
(*                                                                         *)
(* SpecWorker : one run of lu_batch_driver.py main(), the import resolver  *)
(*              try_import_lxf() stepping one host call at a time.         *)
(* SpecOrch   : one run of lu_batch.py main(), its ThreadPoolExecutor and  *)
(*              the worker processes run_one() spawns.                     *)
(* SpecRunOne : SpecOrch over one matched file, the worker processes      *)
(*              writing to stdout and stderr.                              *)
(* SpecRerun  : SpecOrch run again and again over the same output          *)
(*              directory.                                                 *)
(* SpecDevice : the device selector of lu_batch_driver.py, one host access *)
(*              at a time, followed by set_lu_gpu_flags.                   *)
(* SpecExport : the export block of lu_batch_driver.py main().             *)
(* SpecWrap   : the headless wrappers of lu_batch_driver.py, patching one  *)
(*              operator class and one call of a wrapped method.           *)
(* SpecDds    : the DDS conversion at the end of ugc_render_driver.py and  *)
(*              ugc_render_standalone.py.                                  *)
(* SpecFind   : find_files() of lu_batch.py over one small directory tree. *)
(* SpecLaunch : one run of ugc_render_standalone.py main(), ending in the  *)
(*              launcher's part of SpecDds.                                *)
(*                                                                         *)
(* Host operators of bpy.ops are opaque and fallible: each invocation     *)
(* either returns or raises, chosen nondeterministically.  File-system     *)
(* calls whose preconditions hold (makedirs, open(..., "w"), rmtree) are   *)
(* taken to succeed, and the --blender executable is taken to be           *)
(* spawnable, so run_one itself does not raise.                            *)
(***************************************************************************)
EXTENDS Integers, Sequences, FiniteSets, TLC

\* ------------------------------------------------------------------ bounds
MaxFiles == 2
MaxJobs == 2
MaxDevices == 2
MaxRuns == 2
MaxEntries == 3

VARIABLES
    \* lu_batch_driver.py main()
    args, wpc, started, trace, res, exitCode, actual, gpu_flags,
    \* lu_batch_driver.py try_import_lxf()
    op_ids, opI, callI, phase, calls, last_err, temp_dir, import_exc,
    attempts,
    \* lu_batch.py main()
    oargs, opc, files, subI, tasks, futs, collected, ok, fail, logs,
    out_dir, orcExit, run,
    \* lu_batch_driver.py set_cycles_device_auto/_forced, set_lu_gpu_flags
    arg_device, dpc, devices, compute_device_type, backend, found_gpu,
    scene_device, returned, lutb_process_use_gpu, lutb_bake_use_gpu,
    saved_devices,
    \* lu_batch_driver.py main() export block, export_nif()
    epc, prep, nif_calls, export_exit,
    \* lu_batch_driver.py _apply_headless_patches(), _wrap_ctx_method()
    hpc, methods, tried, wrapped, context_area, called, orig_runs,
    \* ugc_render_driver.py / ugc_render_standalone.py: DDS conversion
    upc, program, dds, image, linux, encoders, enc_i, converted, dds_exit,
    \* lu_batch.py find_files()
    fpc, root_is_file, root, patterns, recursive, listing, has_sub,
    sub_listing, pats, walker, wI, fI, matched,
    \* ugc_render_standalone.py main()
    lpc, inputblend, driver_py, deleteblend, blender_rc, launch_exit

wvars == <<args, wpc, started, trace, res, exitCode, actual, gpu_flags>>
ivars == <<op_ids, opI, callI, phase, calls, last_err, temp_dir, import_exc,
           attempts>>
ovars == <<oargs, opc, files, subI, tasks, futs, collected, ok, fail, logs,
           out_dir, orcExit, run>>
dvars == <<arg_device, dpc, devices, compute_device_type, backend,
           found_gpu, scene_device, returned, lutb_process_use_gpu,
           lutb_bake_use_gpu, saved_devices>>
evars == <<epc, prep, nif_calls, export_exit>>
hvars == <<hpc, methods, tried, wrapped, context_area, called, orig_runs>>
uvars == <<upc, program, dds, image, linux, encoders, enc_i, converted, dds_exit>>
fvars == <<fpc, root_is_file, root, patterns, recursive, listing, has_sub,
          sub_listing, pats, walker, wI, fI, matched>>
lvars == <<lpc, inputblend, driver_py, deleteblend, blender_rc, launch_exit>>
vars == <<wvars, ivars, ovars, dvars, evars, hvars, uvars, fvars, lvars>>

None == "None"

\* The device selector is not running.
DeviceIdle ==
    /\ arg_device = None /\ dpc = "idle" /\ devices = <<>>
    /\ compute_device_type = None /\ backend = None /\ found_gpu = FALSE
    /\ scene_device = None /\ returned = None
    /\ lutb_process_use_gpu = None /\ lutb_bake_use_gpu = None
    /\ saved_devices = <<>>

ExportIdle ==
    /\ epc = "idle" /\ prep = <<>> /\ nif_calls = <<>> /\ export_exit = -1

WrapIdle ==
    /\ hpc = "idle" /\ methods = None /\ tried = {} /\ wrapped = {}
    /\ context_area = FALSE /\ called = None /\ orig_runs = <<>>

DdsIdle ==
    /\ upc = "idle" /\ program = None /\ dds = FALSE /\ image = None
    /\ linux = FALSE /\ encoders = None /\ enc_i = 0 /\ converted = FALSE
    /\ dds_exit = -1

FindIdle ==
    /\ fpc = "idle" /\ root_is_file = FALSE /\ root = <<>> /\ patterns = <<>>
    /\ recursive = FALSE /\ listing = <<>> /\ has_sub = FALSE
    /\ sub_listing = <<>> /\ pats = <<>> /\ walker = <<>>
    /\ wI = 0 /\ fI = 0 /\ matched = <<>>

LaunchIdle ==
    /\ lpc = "idle" /\ inputblend = None /\ driver_py = FALSE
    /\ deleteblend = FALSE /\ blender_rc = -1 /\ launch_exit = -1

\* ======================================================================
\*  lu_batch_driver.py
\* ======================================================================

\* argparse result of main(), reduced to what the control flow reads:
\* os.path.isfile(src), bool(args.output), args.device, bool(args.import_op),
\* the lower-cased extension of the input, args.saveblend is not None.
DriverArgs ==
    [inputIsFile : BOOLEAN, output : BOOLEAN,
     device : {"auto", "cpu", "cuda", "optix"},
     import_op : BOOLEAN, ext : {".lxf", ".lxfml"}, saveblend : BOOLEAN]

\* The statements of main() after argument parsing, in program order.
MainOrder ==
    <<"check_input", "patch", "device", "import", "process", "vcols",
      "bake", "export", "saveblend", "exited">>

\* A main() that selects the device before it applies the headless patch.
After_device_first(pc) ==
    LET order == <<"check_input", "device", "patch", "import", "process",
                   "vcols", "bake", "export", "saveblend", "exited">>
        i == CHOOSE k \in 1..Len(order) : order[k] = pc
    IN  order[i + 1]

\* The statement that follows pc when pc falls through.
After(pc) ==
    LET i == CHOOSE k \in 1..Len(MainOrder) : MainOrder[k] = pc
    IN  MainOrder[i + 1]

FatalStages == {"Import", "Process", "Bake", "Export"}
Stages == {"HeadlessPatch", "DeviceSetup", "VColBackstop", "SaveBlend"}
              \cup FatalStages

\* A table that gives Bake the code of Process.
StageExitCode_shifted(stage) ==
    CASE stage = "Import" -> 2
      [] stage = "Process" -> 3
      [] stage = "Bake" -> 3
      [] stage = "Export" -> 5

\* sys.exit(n) in the except handler of each fatal stage.
StageExitCode(stage) ==
    CASE stage = "Import" -> 2
      [] stage = "Process" -> 3
      [] stage = "Bake" -> 4
      [] stage = "Export" -> 5

\* A Bake handler that only logs and falls through to the export block.
ExceptHandler_bake_falls_through(stage) ==
    IF stage = "Bake" THEN "export" ELSE "exited"

\* Where control goes from the except handler of a fatal stage: sys.exit
\* ends the process.
ExceptHandler(stage) == "exited"

\* Exit status of the interpreter when an exception leaves main() uncaught.
UncaughtExit == 1

\* The except handler of a fatal stage.
StageFailed(stage) ==
    /\ res' = [res EXCEPT ![stage] = "failed"]
    /\ wpc' = ExceptHandler(stage)
    /\ exitCode' = StageExitCode(stage)

StageOk(stage, pc) ==
    /\ res' = [res EXCEPT ![stage] = "ok"]
    /\ wpc' = After(pc)
    /\ exitCode' = exitCode

\* A main() that goes on to the stages whatever the input path is.
CheckInput_unchecked ==
    /\ wpc = "check_input"
    /\ wpc' = After("check_input") /\ exitCode' = exitCode
    /\ UNCHANGED <<args, started, trace, res, actual, gpu_flags>>
    /\ UNCHANGED <<ivars, ovars, dvars, evars, hvars, uvars, fvars, lvars>>

\* main(): src / dst resolution and the input pre-check.
CheckInput ==
    /\ wpc = "check_input"
    /\ IF ~args.inputIsFile
          THEN wpc' = "exited" /\ exitCode' = 2
          ELSE wpc' = After("check_input") /\ exitCode' = exitCode
    /\ UNCHANGED <<args, started, trace, res, actual, gpu_flags>>
    /\ UNCHANGED <<ivars, ovars, dvars, evars, hvars, uvars, fvars, lvars>>

\* _apply_headless_patches(): never raises; returns whether anything was
\* wrapped.
HeadlessPatch ==
    /\ wpc = "patch"
    /\ started' = Append(started, "HeadlessPatch")
    /\ \E patched \in BOOLEAN :
          /\ trace' = Append(trace,
                 <<"HeadlessPatch", "_apply_headless_patches">>)
          /\ res' = [res EXCEPT !["HeadlessPatch"] =
                        IF patched THEN "ok" ELSE "failed"]
    /\ wpc' = After("patch")
    /\ UNCHANGED <<args, exitCode, actual, gpu_flags>>
    /\ UNCHANGED <<ivars, ovars, dvars, evars, hvars, uvars, fvars, lvars>>

\* What set_cycles_device_auto / set_cycles_device_forced can do: return an
\* effective device, or let a host error escape ("raise").
DeviceOutcomes(device) ==
    IF device = "auto" THEN {"cpu", "cuda", "optix", "raise"}
    ELSE {"cpu", device, "raise"}

\* main(): device policy, then set_lu_gpu_flags(use_gpu=(actual != 'cpu')).
DeviceSetup ==
    /\ wpc = "device"
    /\ started' = Append(started, "DeviceSetup")
    /\ \E out \in DeviceOutcomes(args.device) :
          /\ trace' = Append(trace, <<"DeviceSetup", "set_cycles_device">>)
          /\ IF out = "raise"
                THEN /\ res' = [res EXCEPT !["DeviceSetup"] = "raised"]
                     /\ wpc' = "exited"
                     /\ exitCode' = UncaughtExit
                     /\ UNCHANGED <<actual, gpu_flags>>
                ELSE /\ res' = [res EXCEPT !["DeviceSetup"] = "ok"]
                     /\ wpc' = After("device")
                     /\ exitCode' = exitCode
                     /\ actual' = out
                     /\ gpu_flags' = (out # "cpu")
    /\ UNCHANGED args
    /\ UNCHANGED <<ivars, ovars, dvars, evars, hvars, uvars, fvars, lvars>>

\* ---------------------------------------------------------- try_import_lxf

\* An operator list that puts the caller's override last.
BuildOpIds_override_last(override, ext) ==
    (IF ext = ".lxf"
        THEN <<"import_scene.importldd", "import_scene.lxf">>
        ELSE <<"import_scene.importldd", "import_scene.lxfml">>)
    \o (IF override THEN <<"override">> ELSE <<>>)

\* op_ids as try_import_lxf builds it.
BuildOpIds(override, ext) ==
    (IF override THEN <<"override">> ELSE <<>>)
    \o (IF ext = ".lxf"
           THEN <<"import_scene.importldd", "import_scene.lxf">>
           ELSE <<"import_scene.importldd", "import_scene.lxfml">>)

\* A fallback loop that offers the payload to the archive importer again.
FallbackOps_archive_again == <<"import_scene.importldd", "import_scene.lxf">>

\* The operators of the unzipped-.lxfml fallback loop.
FallbackOps == <<"import_scene.importldd", "import_scene.lxfml">>

\* attempts: filepath=, path=, directory=+files=.
Conventions == <<"filepath", "path", "directory_files">>

\* The operator list of a fallback that retries the whole direct list.
CurOps_direct_list == op_ids

CurOps == IF phase = "fallback" THEN FallbackOps ELSE op_ids
CurTarget == IF phase = "fallback" THEN "lxfml" ELSE "path"

\* A first success that is only remembered, the loops running on.
OnCallSuccess_keeps_going(ph) == ph

\* `return` right after the first call that did not raise.
OnCallSuccess(ph) == "returned"

\* A finally clause that leaves the directory in place.
Cleanup_leaves_dir(td) == td

\* finally: remove the temporary directory if one was created.
Cleanup(td) == IF td = "exists" THEN "removed" ELSE td

\* The position after convention c of operator o: next convention, then the
\* next operator.
AdvanceCall(o, c) ==
    IF c < Len(Conventions) THEN <<o, c + 1>> ELSE <<o + 1, 0>>

\* try_import_lxf entered from main().
ImportBegin ==
    /\ wpc = "import" /\ phase = "idle"
    /\ started' = Append(started, "Import")
    /\ op_ids' = BuildOpIds(args.import_op, args.ext)
    /\ opI' = 1 /\ callI' = 0
    /\ phase' = "direct"
    /\ UNCHANGED <<calls, last_err, temp_dir, import_exc, attempts>>
    /\ UNCHANGED <<args, wpc, trace, res, exitCode, actual, gpu_flags>>
    /\ UNCHANGED <<ovars, dvars, evars, hvars, uvars, fvars, lvars>>

\* Resolving op_id to a host operator (split + getattr), which may raise.
Lookup(ph) ==
    /\ wpc = "import" /\ phase = ph
    /\ opI <= Len(CurOps) /\ callI = 0
    /\ \E found \in BOOLEAN :
          LET this == [op |-> CurOps[opI], conv |-> "lookup",
                       target |-> CurTarget]
          IN  /\ attempts' = Append(attempts,
                     [op |-> this.op, conv |-> this.conv,
                      target |-> this.target, ok |-> found])
              /\ IF found
                    THEN callI' = 1 /\ UNCHANGED <<opI, last_err>>
                    ELSE /\ last_err' = this
                         /\ opI' = opI + 1 /\ callI' = callI
    /\ UNCHANGED <<op_ids, phase, calls, temp_dir, import_exc>>
    /\ UNCHANGED <<wvars, ovars, dvars, evars, hvars, uvars, fvars, lvars>>

\* One call(operator, target) of the attempts loop.
Call(ph) ==
    /\ wpc = "import" /\ phase = ph
    /\ opI <= Len(CurOps) /\ callI \in 1..Len(Conventions)
    /\ \E raised \in BOOLEAN :
          LET this == [op |-> CurOps[opI], conv |-> Conventions[callI],
                       target |-> CurTarget]
          IN  /\ calls' = Append(calls,
                     [op |-> this.op, conv |-> this.conv,
                      target |-> this.target, ok |-> ~raised])
              /\ trace' = Append(trace, <<"Import", this.op>>)
              /\ attempts' = Append(attempts,
                     [op |-> this.op, conv |-> this.conv,
                      target |-> this.target, ok |-> ~raised])
              /\ IF raised
                    THEN /\ last_err' = this
                         /\ opI' = AdvanceCall(opI, callI)[1]
                         /\ callI' = AdvanceCall(opI, callI)[2]
                         /\ UNCHANGED <<phase, temp_dir>>
                    ELSE /\ phase' = OnCallSuccess(ph)
                         /\ temp_dir' = IF phase' = "returned"
                                           THEN Cleanup(temp_dir)
                                           ELSE temp_dir
                         /\ IF phase' = "returned"
                               THEN UNCHANGED <<opI, callI>>
                               ELSE /\ opI' = AdvanceCall(opI, callI)[1]
                                    /\ callI' = AdvanceCall(opI, callI)[2]
                         /\ UNCHANGED last_err
    /\ UNCHANGED <<op_ids, import_exc>>
    /\ UNCHANGED <<args, wpc, started, res, exitCode, actual, gpu_flags>>
    /\ UNCHANGED <<ovars, dvars, evars, hvars, uvars, fvars, lvars>>

DirectLookup == Lookup("direct")
DirectCall == Call("direct")
FallbackLookup == Lookup("fallback")
FallbackCall == Call("fallback")

\* if ext == ".lxf": mkdtemp, extractall, search for the first .lxfml.
ArchiveUnpack ==
    /\ wpc = "import" /\ phase = "direct"
    /\ opI > Len(op_ids)
    /\ args.ext = ".lxf"
    /\ \E out \in {"mkdtemp_raises", "extract_raises", "no_lxfml", "found"} :
          /\ trace' = Append(trace, <<"Import", "unpack">>)
          /\ attempts' = Append(attempts,
                 [op |-> "unpack", conv |-> out, target |-> "path",
                  ok |-> (out = "found")])
          /\ CASE out = "mkdtemp_raises" ->
                    /\ temp_dir' = temp_dir
                    /\ phase' = "raised"
                    /\ import_exc' = [type |-> "OSError", last |-> None]
                    /\ UNCHANGED <<opI, callI>>
               [] out = "extract_raises" ->
                    /\ temp_dir' = Cleanup("exists")
                    /\ phase' = "raised"
                    /\ import_exc' = [type |-> "BadZipFile", last |-> None]
                    /\ UNCHANGED <<opI, callI>>
               [] out = "no_lxfml" ->
                    /\ temp_dir' = Cleanup("exists")
                    /\ phase' = "raised"
                    /\ import_exc' = [type |-> "NoLxfml", last |-> None]
                    /\ UNCHANGED <<opI, callI>>
               [] out = "found" ->
                    /\ temp_dir' = "exists"
                    /\ phase' = "fallback"
                    /\ opI' = 1 /\ callI' = 0
                    /\ UNCHANGED import_exc
    /\ UNCHANGED <<op_ids, calls, last_err>>
    /\ UNCHANGED <<args, wpc, started, res, exitCode, actual, gpu_flags>>
    /\ UNCHANGED <<ovars, dvars, evars, hvars, uvars, fvars, lvars>>

\* A final error that does not carry the last error.
NoImportError_bare(err) ==
    [type |-> "RuntimeError",
     last |-> [op |-> "none", conv |-> "none", target |-> "none"]]

\* RuntimeError(f"Could not import '{path}'. Last error: {last_err}").
NoImportError(err) == [type |-> "RuntimeError", last |-> err]

\* Every attempt raised: (finally: cleanup) raise RuntimeError(... last_err).
RaiseNoImport ==
    /\ wpc = "import"
    /\ \/ phase = "direct" /\ opI > Len(op_ids) /\ args.ext # ".lxf"
       \/ phase = "fallback" /\ opI > Len(FallbackOps)
    /\ temp_dir' = Cleanup(temp_dir)
    /\ phase' = "raised"
    /\ import_exc' = NoImportError(last_err)
    /\ UNCHANGED <<op_ids, opI, callI, calls, last_err, attempts>>
    /\ UNCHANGED <<wvars, ovars, dvars, evars, hvars, uvars, fvars, lvars>>

\* main(): the try/except around try_import_lxf.
ImportResult ==
    /\ wpc = "import" /\ phase \in {"returned", "raised"}
    /\ IF phase = "returned" THEN StageOk("Import", "import")
                             ELSE StageFailed("Import")
    /\ UNCHANGED <<args, started, trace, actual, gpu_flags>>
    /\ UNCHANGED <<ivars, ovars, dvars, evars, hvars, uvars, fvars, lvars>>

\* ------------------------------------------------ Process, Bake, Export

\* main(): call_op(args.process_op, "Process Model").
Process ==
    /\ wpc = "process"
    /\ started' = Append(started, "Process")
    /\ \E raised \in BOOLEAN :
          /\ trace' = Append(trace, <<"Process", "call_op">>)
          /\ IF raised THEN StageFailed("Process")
                       ELSE StageOk("Process", "process")
    /\ UNCHANGED <<args, actual, gpu_flags>>
    /\ UNCHANGED <<ivars, ovars, dvars, evars, hvars, uvars, fvars, lvars>>

\* A backstop whose error ends the worker.
BackstopHandler_fatal(raised) ==
    IF raised THEN "exited" ELSE After("vcols")

\* Where control goes after the backstop: its except clause only prints.
BackstopHandler(raised) == After("vcols")

\* main(): ensure_vertex_colors_exist(), errors logged only.
EnsureVCols ==
    /\ wpc = "vcols"
    /\ \E raised \in BOOLEAN :
          /\ trace' = Append(trace,
                 <<"VColBackstop", "ensure_vertex_colors_exist">>)
          /\ res' = [res EXCEPT !["VColBackstop"] =
                        IF raised THEN "failed" ELSE "ok"]
          /\ wpc' = BackstopHandler(raised)
    /\ UNCHANGED <<args, started, exitCode, actual, gpu_flags>>
    /\ UNCHANGED <<ivars, ovars, dvars, evars, hvars, uvars, fvars, lvars>>

\* main(): call_op(args.bake_op, "Bake Lighting").
Bake ==
    /\ wpc = "bake"
    /\ started' = Append(started, "Bake")
    /\ \E raised \in BOOLEAN :
          /\ trace' = Append(trace, <<"Bake", "call_op">>)
          /\ IF raised THEN StageFailed("Bake")
                       ELSE StageOk("Bake", "bake")
    /\ UNCHANGED <<args, actual, gpu_flags>>
    /\ UNCHANGED <<ivars, ovars, dvars, evars, hvars, uvars, fvars, lvars>>

\* The host calls export_nif makes, by outcome.
ExportOutcomes ==
    {"no_operator", "ok", "error", "retry_ok", "retry_error"}

ExportOps(out) ==
    CASE out = "no_operator" -> <<>>
      [] out \in {"ok", "error"} ->
            << <<"Export", "save_all_modified">>,
               <<"Export", "export_scene.nif(scale)">> >>
      [] out \in {"retry_ok", "retry_error"} ->
            << <<"Export", "save_all_modified">>,
               <<"Export", "export_scene.nif(scale)">>,
               <<"Export", "scene.scale_correction">>,
               <<"Export", "export_scene.nif">> >>

\* An export block entered whether or not --output was given.
ExportRequested_always(a) == TRUE

\* main(): `if dst:`.
ExportRequested(a) == a.output

\* main(): if dst: set_niftools_game_to_lu() (best effort), export_nif(dst).
Export ==
    /\ wpc = "export" /\ ExportRequested(args)
    /\ started' = Append(started, "Export")
    /\ \E out \in ExportOutcomes :
          /\ trace' = Append(trace, <<"Export", "set_niftools_game_to_lu">>)
                      \o ExportOps(out)
          /\ IF out \in {"ok", "retry_ok"}
                THEN StageOk("Export", "export")
                ELSE StageFailed("Export")
    /\ UNCHANGED <<args, actual, gpu_flags>>
    /\ UNCHANGED <<ivars, ovars, dvars, evars, hvars, uvars, fvars, lvars>>

\* main(): else: print("[Export] Skipped (no --output provided)").
ExportSkip ==
    /\ wpc = "export" /\ ~ExportRequested(args)
    /\ res' = [res EXCEPT !["Export"] = "skipped"]
    /\ wpc' = After("export")
    /\ UNCHANGED <<args, started, trace, exitCode, actual, gpu_flags>>
    /\ UNCHANGED <<ivars, ovars, dvars, evars, hvars, uvars, fvars, lvars>>

\* An exit status that reports a failed snapshot save.
DoneExit_reports_save(save_failed) == IF save_failed THEN 1 ELSE 0

\* print("[Done] Success."); sys.exit(0), whatever save_blend_after did.
DoneExit(save_failed) == 0

\* main(): save_blend_after (errors logged only), then sys.exit(0).
SaveBlend ==
    /\ wpc = "saveblend"
    /\ IF args.saveblend
          THEN \E raised \in BOOLEAN :
                  /\ trace' = Append(trace,
                         <<"SaveBlend", "save_mainfile">>)
                  /\ res' = [res EXCEPT !["SaveBlend"] =
                                IF raised THEN "failed" ELSE "ok"]
                  /\ exitCode' = DoneExit(raised)
          ELSE /\ exitCode' = DoneExit(FALSE)
               /\ UNCHANGED <<trace, res>>
    /\ wpc' = After("saveblend")
    /\ UNCHANGED <<args, started, actual, gpu_flags>>
    /\ UNCHANGED <<ivars, ovars, dvars, evars, hvars, uvars, fvars, lvars>>

OrchIdle ==
    /\ oargs = None /\ opc = "idle" /\ files = <<>> /\ subI = 0
    /\ tasks = <<>> /\ futs = <<>> /\ collected = {} /\ ok = 0 /\ fail = 0
    /\ logs = {} /\ out_dir = FALSE /\ orcExit = -1 /\ run = 0

InitWorker ==
    /\ args \in DriverArgs
    /\ wpc = "check_input"
    /\ started = <<>> /\ trace = <<>>
    /\ res = [s \in Stages |-> "none"]
    /\ exitCode = -1
    /\ actual = None /\ gpu_flags = None
    /\ op_ids = <<>> /\ opI = 0 /\ callI = 0 /\ phase = "idle"
    /\ calls = <<>> /\ last_err = None /\ temp_dir = None
    /\ import_exc = None /\ attempts = <<>>
    /\ OrchIdle
    /\ DeviceIdle
    /\ ExportIdle
    /\ WrapIdle
    /\ DdsIdle
    /\ FindIdle
    /\ LaunchIdle

NextWorker ==
    \/ CheckInput
    \/ HeadlessPatch
    \/ DeviceSetup
    \/ ImportBegin
    \/ DirectLookup
    \/ DirectCall
    \/ ArchiveUnpack
    \/ FallbackLookup
    \/ FallbackCall
    \/ RaiseNoImport
    \/ ImportResult
    \/ Process
    \/ EnsureVCols
    \/ Bake
    \/ Export
    \/ ExportSkip
    \/ SaveBlend

SpecWorker == InitWorker /\ [][NextWorker]_vars

\* ======================================================================
\*  lu_batch.py
\* ======================================================================

\* File names are sequences of characters, so that splitext and the name
\* derivations compute what the code computes.
A_LXF == <<"a", ".", "l", "x", "f">>
A_LXFML == <<"a", ".", "l", "x", "f", "m", "l">>
B_LXF == <<"b", ".", "l", "x", "f">>
DotNif == <<".", "n", "i", "f">>
DotNoexport == <<".", "n", "o", "e", "x", "p", "o", "r", "t">>
DotOkLog == <<".", "o", "k", ".", "l", "o", "g">>
DotErrLog == <<".", "e", "r", "r", ".", "l", "o", "g">>

\* Input files discovery can return: mixed extensions of one stem, one name
\* in two directories (recursive walk), and an unrelated stem.
FileUniverse ==
    {[dir |-> "in", name |-> A_LXF], [dir |-> "in", name |-> A_LXFML],
     [dir |-> "in", name |-> B_LXF], [dir |-> "in/sub", name |-> A_LXF]}

\* Sequences without repetition over S, of length n.
RECURSIVE Arrangements(_, _)
Arrangements(S, n) ==
    IF n = 0 THEN {<<>>}
    ELSE UNION {{Append(q, x) : x \in S \ {q[k] : k \in 1..Len(q)}} :
                   q \in Arrangements(S, n - 1)}

\* What find_files can return: distinct paths, the top directory's files
\* before those of its sub-directory (os.walk is top-down).
Discoverable ==
    {q \in UNION {Arrangements(FileUniverse, n) : n \in 0..MaxFiles} :
        \A i \in 1..Len(q), j \in 1..Len(q) :
            i < j => ~(q[i].dir = "in/sub" /\ q[j].dir = "in")}

\* os.path.splitext on a base name: <<root, ext>>, the extension starting at
\* the last dot unless only dots precede it.
splitext(name) ==
    LET dots == {i \in 1..Len(name) : name[i] = "."}
        d == IF dots = {} THEN 0
             ELSE CHOOSE i \in dots : \A k \in dots : k <= i
    IN  IF d = 0 \/ \A k \in 1..(d - 1) : name[k] = "."
           THEN <<name, <<>> >>
           ELSE <<SubSeq(name, 1, d - 1), SubSeq(name, d, Len(name))>>

\* derive_output(in_path, out_root).
derive_output(in_path, out_root) ==
    [dir |-> out_root, name |-> splitext(in_path.name)[1] \o DotNif]

\* Python truthiness of the pass_output argument ("None", "True", "False").
Truthy(x) == x = "True"

\* A classification that takes every non-negative status for success.
Success_nonnegative(returncode) == returncode >= 0

\* run_one: success = (proc.returncode == 0).
Success(returncode) == returncode = 0

\* run_one: log_base.
log_base(out_path, pass_output) ==
    IF Truthy(pass_output) THEN out_path
    ELSE [out_path EXCEPT !.name = splitext(out_path.name)[1] \o DotNoexport]

\* run_one: log_path.
log_path(out_path, pass_output, success) ==
    LET base == log_base(out_path, pass_output)
    IN  [base EXCEPT !.name = @ \o (IF success THEN DotOkLog ELSE DotErrLog)]

\* Exit statuses of a worker process the orchestrator is run against: success
\* and a fatal stage's code (run_one reads the status only as == 0 or not).
ReturnCodes == {0, StageExitCode("Bake")}

\* ThreadPoolExecutor(max_workers=max(1, args.jobs)).
max_workers == IF oargs.jobs < 1 THEN 1 ELSE oargs.jobs

Running == {i \in 1..Len(tasks) : tasks[i].st = "running"}
Queued == {i \in 1..Len(tasks) : tasks[i].st = "queued"}
Range(q) == {q[i] : i \in 1..Len(q)}

\* What subprocess.run(capture_output=True, text=True) hands back.
Procs ==
    [returncode : ReturnCodes, stdout : {"", "[Done] Success"},
     stderr : {"", "Traceback"}]

\* Worker processes that print nothing.
QuietProcs == {p \in Procs : p.stdout = "" /\ p.stderr = ""}

\* A classification that also wants an empty stderr.
classify_reads_stderr(proc) == Success(proc.returncode) /\ proc.stderr = ""

\* run_one: success, computed from the CompletedProcess.
classify(proc) == Success(proc.returncode)

\* A run_one that keeps a log only for a failed worker.
WriteLog_failures_only(old, entry) ==
    IF entry.code = 0 THEN old
    ELSE {l \in old : l.path # entry.path} \cup {entry}

\* run_one: with open(log_path, "w") as f: f.write(...), the file replacing
\* whatever was stored under that path.
WriteLog(old, entry) == {l \in old : l.path # entry.path} \cup {entry}

\* A check that lets an empty file list through.
NoMatch_ignored(fs) == FALSE

\* main(): `if not files`.
NoMatch(fs) == fs = <<>>

\* A submitted run_one call; the result fields are filled in on return.
NewTask(src, pass_output) ==
    [in_path |-> src, out_path |-> derive_output(src, "out"),
     pass_output |-> pass_output, st |-> "queued", returncode |-> -1,
     stdout |-> "", stderr |-> "", success |-> FALSE]

\* An exit status that is 0 as soon as one job succeeded.
FinalExit_any_ok(nok, nfail) == IF nok > 0 THEN 0 ELSE 2

\* sys.exit(0 if fail == 0 else 2).
FinalExit(nok, nfail) == IF nfail = 0 THEN 0 ELSE 2

\* main(): find_files result, "No matching files." exit, os.makedirs.
Discover ==
    /\ opc = "start"
    /\ IF NoMatch(files)
          THEN opc' = "done" /\ orcExit' = 1 /\ UNCHANGED <<out_dir, subI>>
          ELSE opc' = "submit1" /\ out_dir' = TRUE /\ subI' = 1
                  /\ UNCHANGED orcExit
    /\ UNCHANGED <<run, oargs, files, tasks, futs, collected, ok, fail, logs>>
    /\ UNCHANGED <<wvars, ivars, dvars, evars, hvars, uvars, fvars, lvars>>

\* main(): the first submit loop; its last argument evaluates to None.
Submit1 ==
    /\ opc = "submit1" /\ subI <= Len(files)
    /\ tasks' = Append(tasks, NewTask(files[subI], "None"))
    /\ futs' = Append(futs, Len(tasks) + 1)
    /\ subI' = subI + 1
    /\ UNCHANGED <<run, oargs, opc, files, collected, ok, fail, logs, out_dir,
                   orcExit>>
    /\ UNCHANGED <<wvars, ivars, dvars, evars, hvars, uvars, fvars, lvars>>

\* main(): pass_output = (not args.no_export); futs = [].
ResetFuts ==
    /\ opc = "submit1" /\ subI > Len(files)
    /\ futs' = <<>>
    /\ subI' = 1
    /\ opc' = "submit2"
    /\ UNCHANGED <<run, oargs, files, tasks, collected, ok, fail, logs,
                   out_dir, orcExit>>
    /\ UNCHANGED <<wvars, ivars, dvars, evars, hvars, uvars, fvars, lvars>>

\* main(): the second submit loop; after it ok = 0; fail = 0.
Submit2 ==
    /\ opc = "submit2" /\ subI <= Len(files)
    /\ tasks' = Append(tasks,
          NewTask(files[subI], IF oargs.no_export THEN "False" ELSE "True"))
    /\ futs' = Append(futs, Len(tasks) + 1)
    /\ subI' = subI + 1
    /\ opc' = IF subI = Len(files) THEN "collect" ELSE "submit2"
    /\ UNCHANGED <<run, oargs, files, collected, ok, fail, logs, out_dir,
                   orcExit>>
    /\ UNCHANGED <<wvars, ivars, dvars, evars, hvars, uvars, fvars, lvars>>

\* A pool thread takes the oldest queued task: run_one up to subprocess.run,
\* which spawns the worker process.
Start ==
    /\ Queued # {}
    /\ Cardinality(Running) < max_workers
    /\ LET i == CHOOSE k \in Queued : \A m \in Queued : k <= m
       IN  tasks' = [tasks EXCEPT ![i].st = "running"]
    /\ UNCHANGED <<run, oargs, opc, files, subI, futs, collected, ok, fail,
                   logs, out_dir, orcExit>>
    /\ UNCHANGED <<wvars, ivars, dvars, evars, hvars, uvars, fvars, lvars>>

\* The worker process of task i exits with some status and output; run_one
\* classifies it, opens log_path for writing, writes the log and returns
\* (in_path, success, log_path).
RunOne(P) ==
    /\ \E i \in 1..Len(tasks), proc \in P :
          /\ tasks[i].st = "running"
          /\ LET t == tasks[i]
                 p == log_path(t.out_path, t.pass_output, classify(proc))
             IN  logs' = WriteLog(logs,
                     [path |-> p, by |-> i, run |-> run,
                      code |-> proc.returncode, stdout |-> proc.stdout,
                      stderr |-> proc.stderr])
          /\ tasks' = [tasks EXCEPT ![i].st = "done",
                                    ![i].returncode = proc.returncode,
                                    ![i].stdout = proc.stdout,
                                    ![i].stderr = proc.stderr,
                                    ![i].success = classify(proc)]
    /\ UNCHANGED <<run, oargs, opc, files, subI, futs, collected, ok, fail,
                   out_dir, orcExit>>
    /\ UNCHANGED <<wvars, ivars, dvars, evars, hvars, uvars, fvars, lvars>>

Complete == RunOne(QuietProcs)
CompleteVerbose == RunOne(Procs)

\* main(): one iteration of `for fut in as_completed(futs)`.
Collect ==
    /\ opc = "collect"
    /\ \E i \in Range(futs) \ collected :
          /\ tasks[i].st = "done"
          /\ collected' = collected \cup {i}
          /\ IF tasks[i].success
                THEN ok' = ok + 1 /\ fail' = fail
                ELSE fail' = fail + 1 /\ ok' = ok
    /\ UNCHANGED <<run, oargs, opc, files, subI, tasks, futs, logs, out_dir,
                   orcExit>>
    /\ UNCHANGED <<wvars, ivars, dvars, evars, hvars, uvars, fvars, lvars>>

\* A main() that prints and exits once as_completed is exhausted, without
\* the executor's shutdown(wait=True).
Finish_no_shutdown_wait ==
    /\ opc = "collect"
    /\ Range(futs) \subseteq collected
    /\ orcExit' = FinalExit(ok, fail)
    /\ opc' = "done"
    /\ UNCHANGED <<run, oargs, files, subI, tasks, futs, collected, ok, fail,
                   logs, out_dir>>
    /\ UNCHANGED <<wvars, ivars, dvars, evars, hvars, uvars, fvars, lvars>>

\* main(): leaving the `with` block waits for every submitted task
\* (shutdown(wait=True)); then the aggregate line and sys.exit.
Finish ==
    /\ opc = "collect"
    /\ Range(futs) \subseteq collected
    /\ \A i \in 1..Len(tasks) : tasks[i].st = "done"
    /\ orcExit' = FinalExit(ok, fail)
    /\ opc' = "done"
    /\ UNCHANGED <<run, oargs, files, subI, tasks, futs, collected, ok, fail,
                   logs, out_dir>>
    /\ UNCHANGED <<wvars, ivars, dvars, evars, hvars, uvars, fvars, lvars>>

WorkerIdle ==
    /\ args = None /\ wpc = "idle" /\ started = <<>> /\ trace = <<>>
    /\ res = None /\ exitCode = -1 /\ actual = None /\ gpu_flags = None
    /\ op_ids = <<>> /\ opI = 0 /\ callI = 0 /\ phase = "idle"
    /\ calls = <<>> /\ last_err = None /\ temp_dir = None
    /\ import_exc = None /\ attempts = <<>>

\* args of lu_batch.py main(): --jobs and --no-export.
OrchArgs == [jobs : 0..MaxJobs, no_export : BOOLEAN]

InitOrch ==
    /\ oargs \in OrchArgs
    /\ files \in Discoverable
    /\ opc = "start" /\ subI = 0
    /\ tasks = <<>> /\ futs = <<>> /\ collected = {}
    /\ ok = 0 /\ fail = 0 /\ logs = {} /\ out_dir = FALSE /\ orcExit = -1
    /\ run = 1
    /\ WorkerIdle
    /\ DeviceIdle
    /\ ExportIdle
    /\ WrapIdle
    /\ DdsIdle
    /\ FindIdle
    /\ LaunchIdle

NextOrch ==
    \/ Discover
    \/ Submit1
    \/ ResetFuts
    \/ Submit2
    \/ Start
    \/ Complete
    \/ Collect
    \/ Finish

SpecOrch == InitOrch /\ [][NextOrch]_vars

\* One matched file, its worker processes writing to stdout and stderr.
InitRunOne == InitOrch /\ Len(files) = 1

NextRunOne ==
    \/ Discover
    \/ Submit1
    \/ ResetFuts
    \/ Submit2
    \/ Start
    \/ CompleteVerbose
    \/ Collect
    \/ Finish

SpecRunOne == InitRunOne /\ [][NextRunOne]_vars

\* The operator runs the same command line again after main() has exited:
\* main() starts afresh over the same inputs, the output directory and the
\* files in it are what the earlier runs left.
Rerun ==
    /\ opc = "done" /\ run < MaxRuns
    /\ run' = run + 1
    /\ opc' = "start" /\ subI' = 0
    /\ tasks' = <<>> /\ futs' = <<>> /\ collected' = {}
    /\ ok' = 0 /\ fail' = 0 /\ orcExit' = -1
    /\ UNCHANGED <<oargs, files, logs, out_dir>>
    /\ UNCHANGED <<wvars, ivars, dvars, evars, hvars, uvars, fvars, lvars>>

NextRerun ==
    \/ Discover
    \/ Submit1
    \/ ResetFuts
    \/ Submit2
    \/ Start
    \/ Complete
    \/ Collect
    \/ Finish
    \/ Rerun

SpecRerun == InitOrch /\ [][NextRerun]_vars

\* ======================================================================
\*  lu_batch_driver.py: device selection
\* ======================================================================
\* The selector steps one host access at a time.  cp.devices is the host's
\* device inventory, each entry with its type and its `use` mark; the
\* inventory is taken as the host reports it after refresh_devices() /
\* get_devices().  saved_devices keeps the inventory as it was on entry.

DeviceTypes == {"CPU", "CUDA", "OPTIX"}
DeviceEntry == [type : DeviceTypes, use : BOOLEAN]
Inventories ==
    UNION {[1..n -> DeviceEntry] : n \in 0..MaxDevices}

\* bool(use_gpu) as the value stored in a scene property.
Bool(b) == IF b THEN "True" ELSE "False"

\* backend = 'NONE' if want=='cpu' else ('CUDA' if want=='cuda' else 'OPTIX')
BackendOf(want) ==
    IF want = "cpu" THEN "NONE"
    ELSE IF want = "cuda" THEN "CUDA" ELSE "OPTIX"

\* A loop body that also clears the mark of every other GPU device.
MarkOne_exclusive(d, b) ==
    IF b \in {"CUDA", "OPTIX"} /\ d.type = b THEN [d EXCEPT !.use = TRUE]
    ELSE IF d.type = "CPU" THEN [d EXCEPT !.use = TRUE]
    ELSE [d EXCEPT !.use = FALSE]

\* The body of `for d in cp.devices` in set_cycles_device_forced.
MarkOne(d, b) ==
    IF b \in {"CUDA", "OPTIX"} /\ d.type = b THEN [d EXCEPT !.use = TRUE]
    ELSE IF d.type = "CPU" THEN [d EXCEPT !.use = TRUE]
    ELSE d

\* The inventory after the loop handled its first k entries.
MarkUse(devs, b, k) ==
    [i \in 1..Len(devs) |-> IF i <= k THEN MarkOne(devs[i], b) ELSE devs[i]]

\* found_gpu after the loop handled its first k entries.
FoundGpu(devs, b, k) ==
    /\ b \in {"CUDA", "OPTIX"}
    /\ \E i \in 1..k : devs[i].type = b

\* A probe that marks every GPU device in use before it reads the marks.
ProbeDevices_enabling(devs) ==
    LET on == [i \in 1..Len(devs) |->
                  IF devs[i].type = "CPU" THEN devs[i]
                  ELSE [devs[i] EXCEPT !.use = TRUE]]
    IN  [any_optix |-> \E i \in 1..Len(on) : on[i].type = "OPTIX",
         any_cuda |-> \E i \in 1..Len(on) : on[i].type = "CUDA",
         devices |-> on]

\* any_optix / any_cuda of set_cycles_device_auto, and the inventory the
\* two generator expressions leave behind.
ProbeDevices(devs) ==
    [any_optix |-> \E i \in 1..Len(devs) :
                      devs[i].type = "OPTIX" /\ devs[i].use,
     any_cuda |-> \E i \in 1..Len(devs) :
                      devs[i].type = "CUDA" /\ devs[i].use,
     devices |-> devs]

\* The tail of set_cycles_device_auto: scene device and return value.
AutoChoice(p) ==
    IF p.any_optix \/ p.any_cuda
       THEN [scene |-> "GPU",
             used |-> IF p.any_optix THEN "optix" ELSE "cuda"]
       ELSE [scene |-> "CPU", used |-> "cpu"]

\* A tail that trusts the requested backend without looking at found_gpu.
ForcedChoice_no_downgrade(want, b, found) ==
    IF b = "NONE" THEN [scene |-> "CPU", used |-> "cpu"]
    ELSE [scene |-> "GPU", used |-> want]

\* The tail of set_cycles_device_forced: scene device and return value.
ForcedChoice(want, b, found) ==
    IF b \in {"CUDA", "OPTIX"} /\ ~found
       THEN [scene |-> "CPU", used |-> "cpu"]
    ELSE IF b = "NONE" THEN [scene |-> "CPU", used |-> "cpu"]
    ELSE [scene |-> "GPU", used |-> want]

\* addon_enable(module="cycles") (errors swallowed), then
\* prefs.addons.get("cycles"), which the host may answer with nothing.
EnableCycles ==
    /\ dpc = "enter"
    /\ \E present \in BOOLEAN :
          dpc' = IF ~present THEN "no_cycles"
                 ELSE IF arg_device = "auto" THEN "refresh"
                 ELSE "set_backend"
    /\ UNCHANGED <<arg_device, devices, compute_device_type, backend,
                   found_gpu, scene_device, returned, lutb_process_use_gpu,
                   lutb_bake_use_gpu, saved_devices>>
    /\ UNCHANGED <<wvars, ivars, ovars, evars, hvars, uvars, fvars, lvars>>

\* `if not cycles_prefs`: scene.cycles.device = 'CPU'; return 'cpu'.  The
\* assignment is outside any try, so a host error escapes.
NoCycles ==
    /\ dpc = "no_cycles"
    /\ \E raises \in BOOLEAN :
          IF raises
             THEN dpc' = "raised" /\ UNCHANGED <<scene_device, returned>>
             ELSE /\ scene_device' = "CPU"
                  /\ returned' = "cpu"
                  /\ dpc' = "flags"
    /\ UNCHANGED <<arg_device, devices, compute_device_type, backend,
                   found_gpu, lutb_process_use_gpu, lutb_bake_use_gpu,
                   saved_devices>>
    /\ UNCHANGED <<wvars, ivars, ovars, evars, hvars, uvars, fvars, lvars>>

\* set_cycles_device_forced: cp.compute_device_type = backend; when the host
\* rejects it the handler assigns 'NONE', and that assignment is unguarded.
SetBackend ==
    /\ dpc = "set_backend"
    /\ \E out \in {"accepted", "rejected", "rejected_twice"} :
          CASE out = "accepted" ->
                  /\ backend' = BackendOf(arg_device)
                  /\ compute_device_type' = BackendOf(arg_device)
                  /\ dpc' = "refresh"
            [] out = "rejected" ->
                  /\ backend' = "NONE"
                  /\ compute_device_type' = "NONE"
                  /\ dpc' = "refresh"
            [] out = "rejected_twice" ->
                  /\ backend' = "NONE"
                  /\ compute_device_type' = compute_device_type
                  /\ dpc' = "raised"
    /\ UNCHANGED <<arg_device, devices, found_gpu, scene_device, returned,
                   lutb_process_use_gpu, lutb_bake_use_gpu, saved_devices>>
    /\ UNCHANGED <<wvars, ivars, ovars, evars, hvars, uvars, fvars, lvars>>

\* _refresh_cycles_devices(cp); _log_devices(cp): every host error is
\* swallowed and nothing is written.
RefreshDevices ==
    /\ dpc = "refresh"
    /\ dpc' = IF arg_device = "auto" THEN "probe" ELSE "mark"
    /\ UNCHANGED <<arg_device, devices, compute_device_type, backend,
                   found_gpu, scene_device, returned, lutb_process_use_gpu,
                   lutb_bake_use_gpu, saved_devices>>
    /\ UNCHANGED <<wvars, ivars, ovars, evars, hvars, uvars, fvars, lvars>>

\* set_cycles_device_auto from any_optix on: the two scans of cp.devices
\* and the scene assignment are outside any try.
AutoSelect ==
    /\ dpc = "probe"
    /\ \E out \in {"scan_raises", "scene_raises", "ok"} :
          LET p == ProbeDevices(devices)
              c == AutoChoice(p)
          IN  CASE out = "scan_raises" ->
                      /\ dpc' = "raised"
                      /\ UNCHANGED <<devices, scene_device, returned>>
                [] out = "scene_raises" ->
                      /\ devices' = p.devices
                      /\ dpc' = "raised"
                      /\ UNCHANGED <<scene_device, returned>>
                [] out = "ok" ->
                      /\ devices' = p.devices
                      /\ scene_device' = c.scene
                      /\ returned' = c.used
                      /\ dpc' = "flags"
    /\ UNCHANGED <<arg_device, compute_device_type, backend, found_gpu,
                   lutb_process_use_gpu, lutb_bake_use_gpu, saved_devices>>
    /\ UNCHANGED <<wvars, ivars, ovars, evars, hvars, uvars, fvars, lvars>>

\* set_cycles_device_forced: the marking loop inside try/except; a host
\* error after k entries ends the loop and is swallowed.
MarkDevices ==
    /\ dpc = "mark"
    /\ \E k \in 0..Len(devices) :
          /\ devices' = MarkUse(devices, backend, k)
          /\ found_gpu' = FoundGpu(devices, backend, k)
    /\ dpc' = "choose"
    /\ UNCHANGED <<arg_device, compute_device_type, backend, scene_device,
                   returned, lutb_process_use_gpu, lutb_bake_use_gpu,
                   saved_devices>>
    /\ UNCHANGED <<wvars, ivars, ovars, evars, hvars, uvars, fvars, lvars>>

\* set_cycles_device_forced from `if backend in {...} and not found_gpu`
\* on: the scene assignment is outside any try.
ForcedSelect ==
    /\ dpc = "choose"
    /\ \E raises \in BOOLEAN :
          LET c == ForcedChoice(arg_device, backend, found_gpu)
          IN  IF raises
                 THEN dpc' = "raised" /\ UNCHANGED <<scene_device, returned>>
                 ELSE /\ scene_device' = c.scene
                      /\ returned' = c.used
                      /\ dpc' = "flags"
    /\ UNCHANGED <<arg_device, devices, compute_device_type, backend,
                   found_gpu, lutb_process_use_gpu, lutb_bake_use_gpu,
                   saved_devices>>
    /\ UNCHANGED <<wvars, ivars, ovars, evars, hvars, uvars, fvars, lvars>>

\* main(): set_lu_gpu_flags(use_gpu=(actual != 'cpu')); a host error at
\* either assignment is swallowed and leaves the rest unwritten.  main()
\* then goes on to the LOD flags and Import.
SetGpuFlags ==
    /\ dpc = "flags"
    /\ \E written \in 0..2 :
          /\ lutb_process_use_gpu' =
                IF written >= 1 THEN Bool(returned # "cpu")
                ELSE lutb_process_use_gpu
          /\ lutb_bake_use_gpu' =
                IF written >= 2 THEN Bool(returned # "cpu")
                ELSE lutb_bake_use_gpu
    /\ dpc' = "done"
    /\ UNCHANGED <<arg_device, devices, compute_device_type, backend,
                   found_gpu, scene_device, returned, saved_devices>>
    /\ UNCHANGED <<wvars, ivars, ovars, evars, hvars, uvars, fvars, lvars>>

\* The selector entered with some request, some inventory and some saved
\* preferences; the LU flags have not been written by this run.
InitDevice ==
    /\ arg_device \in {"auto", "cpu", "cuda", "optix"}
    /\ dpc = "enter"
    /\ devices \in Inventories
    /\ saved_devices = devices
    /\ compute_device_type \in {"NONE", "CUDA", "OPTIX"}
    /\ backend = None /\ found_gpu = FALSE
    /\ scene_device \in {"CPU", "GPU"}
    /\ returned = None
    /\ lutb_process_use_gpu = None /\ lutb_bake_use_gpu = None
    /\ WorkerIdle
    /\ OrchIdle
    /\ ExportIdle
    /\ WrapIdle
    /\ DdsIdle
    /\ FindIdle
    /\ LaunchIdle

NextDevice ==
    \/ EnableCycles
    \/ NoCycles
    \/ SetBackend
    \/ RefreshDevices
    \/ AutoSelect
    \/ MarkDevices
    \/ ForcedSelect
    \/ SetGpuFlags

SpecDevice == InitDevice /\ [][NextDevice]_vars

\* ======================================================================
\*  lu_batch_driver.py: the export block
\* ======================================================================
\* main() with an output path, from `if dst:` on, one host access at a
\* time.  prep records the best-effort steps, nif_calls the invocations of
\* export_scene.nif.

\* How set_niftools_game_to_lu can end: no niftools_scene; the direct
\* assignment worked; an enum item was found and assigned; the enum could
\* not be read; no item matched; or an error escaped to main()'s handler.
GameOutcomes ==
    {"no_niftools_scene", "set", "set_by_enum", "enum_raises", "no_item",
     "raises"}

\* An export that retries without the keyword after any error.
OnFirstCall_retry_any(outcome) ==
    CASE outcome = "ok" -> "saveblend"
      [] outcome = "TypeError" -> "scale_prop"
      [] outcome = "error" -> "scale_prop"

\* export_nif: op(filepath=out_path, scale_correction=1.0) returned, raised
\* TypeError (the except clause), or raised anything else (propagates).
OnFirstCall(outcome) ==
    CASE outcome = "ok" -> "saveblend"
      [] outcome = "TypeError" -> "scale_prop"
      [] outcome = "error" -> "failed"

\* main(): except Exception around export_nif: sys.exit(5).
ExportFailed ==
    /\ epc' = ExceptHandler("Export")
    /\ export_exit' = StageExitCode("Export")

\* main(): try: set_niftools_game_to_lu() except: warning only.
SetGame ==
    /\ epc = "set_game"
    /\ \E out \in GameOutcomes :
          prep' = Append(prep, <<"set_niftools_game_to_lu", out>>)
    /\ epc' = "lookup"
    /\ UNCHANGED <<nif_calls, export_exit>>
    /\ UNCHANGED <<wvars, ivars, ovars, dvars, hvars, uvars, fvars, lvars>>

\* export_nif: op = bpy.ops.export_scene.nif, RuntimeError when missing.
LookupNif ==
    /\ epc = "lookup"
    /\ \E found \in BOOLEAN :
          IF found THEN epc' = "flush" /\ UNCHANGED export_exit
                   ELSE ExportFailed
    /\ UNCHANGED <<prep, nif_calls>>
    /\ UNCHANGED <<wvars, ivars, ovars, dvars, hvars, uvars, fvars, lvars>>

\* export_nif: try: bpy.ops.image.save_all_modified() except: pass.
FlushImages ==
    /\ epc = "flush"
    /\ \E raised \in BOOLEAN :
          prep' = Append(prep, <<"save_all_modified",
                                 IF raised THEN "raises" ELSE "ok">>)
    /\ epc' = "first_call"
    /\ UNCHANGED <<nif_calls, export_exit>>
    /\ UNCHANGED <<wvars, ivars, ovars, dvars, hvars, uvars, fvars, lvars>>

\* export_nif: op(filepath=out_path, scale_correction=1.0).
FirstCall ==
    /\ epc = "first_call"
    /\ \E outcome \in {"ok", "TypeError", "error"} :
          /\ nif_calls' = Append(nif_calls,
                 [scale_correction |-> TRUE, outcome |-> outcome])
          /\ IF OnFirstCall(outcome) = "failed"
                THEN ExportFailed
                ELSE epc' = OnFirstCall(outcome) /\ UNCHANGED export_exit
    /\ UNCHANGED prep
    /\ UNCHANGED <<wvars, ivars, ovars, dvars, hvars, uvars, fvars, lvars>>

\* export_nif, except TypeError: best-effort
\* scene.niftools_scene.scale_correction = 1.0.
ScaleProp ==
    /\ epc = "scale_prop"
    /\ \E out \in {"set", "absent", "raises"} :
          prep' = Append(prep, <<"scene.scale_correction", out>>)
    /\ epc' = "retry"
    /\ UNCHANGED <<nif_calls, export_exit>>
    /\ UNCHANGED <<wvars, ivars, ovars, dvars, hvars, uvars, fvars, lvars>>

\* export_nif, except TypeError: op(filepath=out_path); any error goes to
\* main()'s handler.
RetryCall ==
    /\ epc = "retry"
    /\ \E outcome \in {"ok", "TypeError", "error"} :
          /\ nif_calls' = Append(nif_calls,
                 [scale_correction |-> FALSE, outcome |-> outcome])
          /\ IF outcome = "ok"
                THEN epc' = "saveblend" /\ UNCHANGED export_exit
                ELSE ExportFailed
    /\ UNCHANGED prep
    /\ UNCHANGED <<wvars, ivars, ovars, dvars, hvars, uvars, fvars, lvars>>

\* Bake has succeeded and an output path was given.
InitExport ==
    /\ epc = "set_game" /\ prep = <<>> /\ nif_calls = <<>>
    /\ export_exit = -1
    /\ WorkerIdle
    /\ OrchIdle
    /\ DeviceIdle
    /\ WrapIdle
    /\ DdsIdle
    /\ FindIdle
    /\ LaunchIdle

NextExport ==
    \/ SetGame
    \/ LookupNif
    \/ FlushImages
    \/ FirstCall
    \/ ScaleProp
    \/ RetryCall

SpecExport == InitExport /\ [][NextExport]_vars

\* ======================================================================
\*  lu_batch_driver.py: headless wrapping
\* ======================================================================
\* One operator class of lu_toolbox.process_model: _apply_headless_patches
\* offers each target method to _wrap_ctx_method, then the plugin calls one
\* of the wrapped methods with some context.  A run of the original either
\* returns, raises before it changed anything, or raises after it did.

target_methods ==
    {"apply_vertex_colors", "set_viewport_to_vertex_color",
     "ensure_viewport_settings"}

RunOutcomes == {"returns", "raises_before_effects", "raises_after_effects"}

\* ctx = _CtxProxy(context) if getattr(context, "area", None) is None
\* else context.
CtxFor(area) == IF area THEN "incoming" ELSE "proxy"

\* _wrap_ctx_method(cls, m) for the next target method, in the arbitrary
\* order of a set iteration.
WrapMethod ==
    /\ hpc = "patch"
    /\ \E m \in target_methods \ tried :
          /\ tried' = tried \cup {m}
          /\ wrapped' = IF methods[m] = "callable"
                           THEN wrapped \cup {m} ELSE wrapped
    /\ UNCHANGED <<hpc, methods, context_area, called, orig_runs>>
    /\ UNCHANGED <<wvars, ivars, ovars, dvars, evars, uvars, fvars, lvars>>

\* The plugin calls a wrapped method: _wrapped(self, context) is entered.
InvokeWrapped ==
    /\ hpc = "patch" /\ tried = target_methods
    /\ \E m \in wrapped : called' = m
    /\ hpc' = "try"
    /\ UNCHANGED <<methods, tried, wrapped, context_area, orig_runs>>
    /\ UNCHANGED <<wvars, ivars, ovars, dvars, evars, uvars, fvars, lvars>>

\* _wrapped, try: return orig(self, ctx, ...).
TryOrig ==
    /\ hpc = "try"
    /\ \E out \in RunOutcomes :
          /\ orig_runs' = Append(orig_runs,
                 [ctx |-> CtxFor(context_area), outcome |-> out])
          /\ hpc' = IF out = "returns" THEN "returned" ELSE "except"
    /\ UNCHANGED <<methods, tried, wrapped, context_area, called>>
    /\ UNCHANGED <<wvars, ivars, ovars, dvars, evars, uvars, fvars, lvars>>

\* _wrapped, except Exception: warning; return orig(self, context, ...),
\* whose error is the caller's.
ExceptOrig ==
    /\ hpc = "except"
    /\ \E out \in RunOutcomes :
          /\ orig_runs' = Append(orig_runs,
                 [ctx |-> "incoming", outcome |-> out])
          /\ hpc' = IF out = "returns" THEN "returned" ELSE "raised"
    /\ UNCHANGED <<methods, tried, wrapped, context_area, called>>
    /\ UNCHANGED <<wvars, ivars, ovars, dvars, evars, uvars, fvars, lvars>>

InitWrap ==
    /\ hpc = "patch"
    \* what the class has under each target name
    /\ methods \in [target_methods ->
                       {"absent", "callable", "not_callable"}]
    /\ tried = {} /\ wrapped = {}
    /\ context_area \in BOOLEAN
    /\ called = None /\ orig_runs = <<>>
    /\ WorkerIdle
    /\ OrchIdle
    /\ DeviceIdle
    /\ ExportIdle
    /\ DdsIdle
    /\ FindIdle
    /\ LaunchIdle

NextWrap ==
    \/ WrapMethod
    \/ InvokeWrapped
    \/ TryOrig
    \/ ExceptOrig

SpecWrap == InitWrap /\ [][NextWrap]_vars

\* ======================================================================
\*  ugc_render_driver.py, ugc_render_standalone.py: DDS conversion
\* ======================================================================
\* The tail of both main() functions from "if args.dds:" on.  The driver
\* tries up to four external encoders, the launcher texconv only.  The
\* encoders are external programs: each is missing, exits non-zero, exits
\* zero without having written the .dds, or writes it.  None of them
\* removes its input.  texconv writes <out_dir>/<stem>.dds, which is the
\* target path itself, so the move branch of the converters is not taken.

EncoderStates == {"missing", "fails", "no_output", "ok"}

\* The encoders each program tries, in order.
EncoderOrder(prog) ==
    IF prog = "driver"
       THEN <<"texconv", "nvcompress", "compressonatorcli", "wine_texconv">>
       ELSE <<"texconv">>

\* What the converter sees of an encoder: wine + texconv.exe is only
\* looked for on Linux.
Seen(e) ==
    IF e = "wine_texconv" /\ ~linux THEN "missing" ELSE encoders[e]

\* main(): the source image is removed iff the converter returned True.
DeleteSource_always(conv) == TRUE

DeleteSource(conv) == conv

\* Exit code of main() after the DDS block.
DdsExit(prog, conv) ==
    IF prog = "standalone" /\ ~conv THEN 4 ELSE 0

\* "if args.dds:" and, in the launcher, the check that the image exists.
BeginDds ==
    /\ upc = "start"
    /\ IF ~dds
          THEN upc' = "done" /\ dds_exit' = 0
          ELSE IF program = "standalone" /\ image = "missing"
                  THEN upc' = "done" /\ dds_exit' = 3
                  ELSE upc' = "convert" /\ dds_exit' = dds_exit
    /\ enc_i' = 1
    /\ UNCHANGED <<program, dds, image, linux, encoders, converted>>
    /\ UNCHANGED <<wvars, ivars, ovars, dvars, evars, hvars, fvars, lvars>>

\* _to_dds_dxt5_mips / _convert_png_to_dds: one encoder of the list.  The
\* driver falls through to the next encoder on every failure; the launcher
\* returns False on the first.
TryEncoder ==
    /\ upc = "convert"
    /\ enc_i <= Len(EncoderOrder(program))
    /\ LET out == Seen(EncoderOrder(program)[enc_i]) IN
          IF out = "ok"
             THEN /\ converted' = TRUE
                  /\ upc' = "converted"
                  /\ enc_i' = enc_i
             ELSE IF program = "standalone"
                     THEN /\ converted' = FALSE
                          /\ upc' = "converted"
                          /\ enc_i' = enc_i
                     ELSE /\ converted' = converted
                          /\ upc' = upc
                          /\ enc_i' = enc_i + 1
    /\ UNCHANGED <<program, dds, image, linux, encoders, dds_exit>>
    /\ UNCHANGED <<wvars, ivars, ovars, dvars, evars, hvars, fvars, lvars>>

\* _to_dds_dxt5_mips: "No suitable encoder found."; return False.
NoEncoder ==
    /\ upc = "convert"
    /\ enc_i > Len(EncoderOrder(program))
    /\ converted' = FALSE
    /\ upc' = "converted"
    /\ UNCHANGED <<program, dds, image, linux, encoders, enc_i, dds_exit>>
    /\ UNCHANGED <<wvars, ivars, ovars, dvars, evars, hvars, fvars, lvars>>

\* main(): if <converter>: try: os.remove(image) except: print
\* else: print "leaving ... in place" (launcher: sys.exit(4)).
AfterConvert ==
    /\ upc = "converted"
    /\ IF DeleteSource(converted)
          THEN \E removed \in BOOLEAN :
                  image' = IF removed THEN "deleted" ELSE image
          ELSE image' = image
    /\ dds_exit' = DdsExit(program, converted)
    /\ upc' = "done"
    /\ UNCHANGED <<program, dds, linux, encoders, enc_i, converted>>
    /\ UNCHANGED <<wvars, ivars, ovars, dvars, evars, hvars, fvars, lvars>>

\* The driver reaches the block only with a rendered image it has found;
\* the launcher checks for it itself.
InitDds ==
    /\ upc = "start"
    /\ program \in {"driver", "standalone"}
    /\ dds \in BOOLEAN
    /\ image \in (IF program = "driver" THEN {"present"}
                                        ELSE {"present", "missing"})
    /\ linux \in BOOLEAN
    /\ encoders \in [{"texconv", "nvcompress", "compressonatorcli",
                     "wine_texconv"} -> EncoderStates]
    /\ enc_i = 0 /\ converted = FALSE /\ dds_exit = -1
    /\ WorkerIdle
    /\ OrchIdle
    /\ DeviceIdle
    /\ ExportIdle
    /\ WrapIdle
    /\ FindIdle
    /\ LaunchIdle

NextDds ==
    \/ BeginDds
    \/ TryEncoder
    \/ NoEncoder
    \/ AfterConvert

SpecDds == InitDds /\ [][NextDds]_vars

\* ======================================================================
\*  lu_batch.py: find_files
\* ======================================================================
\* Pattern strings, file names and paths are sequences of characters, so
\* that split, strip, lower and fnmatch compute what the code computes.
\* The patterns use the wildcards * and ? only.

P_DEFAULT ==
    <<"*", ".", "l", "x", "f", ";", "*", ".", "l", "x", "f", "m", "l">>
P_EMPTY == <<>>
P_BLANK == <<" ", ";", " ">>
P_UPPER == <<"*", ".", "L", "X", "F">>
P_SPACED ==
    <<"*", ".", "l", "x", "f", " ", ";", " ", "*", ".", "t", "x", "t">>
P_NAME == <<"a", ".", "l", "x", "f">>
P_ONECHAR == <<"?", ".", "l", "x", "f">>

PatternStrings ==
    {P_DEFAULT, P_EMPTY, P_BLANK, P_UPPER, P_SPACED, P_NAME, P_ONECHAR}

B_LXFML == <<"b", ".", "l", "x", "f", "m", "l">>
C_TXT == <<"c", ".", "t", "x", "t">>
UPPER_A_LXF == <<"A", ".", "L", "X", "F">>
AB_LXF == <<"a", "b", ".", "l", "x", "f">>

\* Names a directory can hold (the file system is case-sensitive).
NameUniverse == {A_LXF, B_LXFML, C_TXT, UPPER_A_LXF, AB_LXF}

TopDir == <<"/", "d">>
SubDir == <<"/", "d", "/", "s">>

\* os.path.join(dirpath, f).
join(dirpath, f) == dirpath \o <<"/">> \o f

\* str.lower() on the characters in use.
lower(s) ==
    [i \in 1..Len(s) |->
        CASE s[i] = "A" -> "a"
          [] s[i] = "L" -> "l"
          [] s[i] = "X" -> "x"
          [] s[i] = "F" -> "f"
          [] OTHER -> s[i]]

\* str.split(";") continued after the piece cur: the pieces between
\* semicolons, empty ones included.
RECURSIVE split(_, _)
split(s, cur) ==
    IF s = <<>> THEN <<cur>>
    ELSE IF Head(s) = ";" THEN <<cur>> \o split(Tail(s), <<>>)
    ELSE split(Tail(s), Append(cur, Head(s)))

\* str.strip(): leading and trailing blanks removed.
RECURSIVE strip(_)
strip(s) ==
    IF s # <<>> /\ Head(s) = " " THEN strip(Tail(s))
    ELSE IF s # <<>> /\ s[Len(s)] = " " THEN strip(SubSeq(s, 1, Len(s) - 1))
    ELSE s

\* [p.strip() for p in patterns.split(";") if p.strip()].
RECURSIVE StripNonEmpty(_)
StripNonEmpty(ps) ==
    IF ps = <<>> THEN <<>>
    ELSE IF strip(Head(ps)) # <<>>
            THEN <<strip(Head(ps))>> \o StripNonEmpty(Tail(ps))
            ELSE StripNonEmpty(Tail(ps))

ParsePatterns(str) == StripNonEmpty(split(str, <<>>))

\* fnmatch.fnmatch on a POSIX host (normcase is the identity): the whole
\* string against the whole pattern, * any run of characters, ? one.
RECURSIVE fnmatch(_, _)
fnmatch(s, p) ==
    IF p = <<>> THEN s = <<>>
    ELSE IF Head(p) = "*"
       THEN fnmatch(s, Tail(p)) \/ (s # <<>> /\ fnmatch(Tail(s), p))
    ELSE IF s = <<>> THEN FALSE
    ELSE IF Head(p) = "?" THEN fnmatch(Tail(s), Tail(p))
    ELSE Head(s) = Head(p) /\ fnmatch(Tail(s), Tail(p))

\* any(fnmatch.fnmatch(x.lower(), p.lower()) for p in pats).
MatchAny_case_sensitive(x, ps) ==
    \E i \in 1..Len(ps) : fnmatch(x, ps[i])

MatchAny(x, ps) ==
    \E i \in 1..Len(ps) : fnmatch(lower(x), lower(ps[i]))

\* The single-file branch: the path itself is matched.
FileResult_needs_match(path, ps) ==
    IF MatchAny(path, ps) THEN <<path>> ELSE <<>>

FileResult(path, ps) ==
    IF MatchAny(path, ps) \/ ps = <<>> THEN <<path>> ELSE <<>>

\* (dirpath, filenames) of the directories os.walk yields, top-down.
WalkAll ==
    <<[dirpath |-> TopDir, filenames |-> listing]>>
    \o (IF has_sub THEN <<[dirpath |-> SubDir, filenames |-> sub_listing]>>
                   ELSE <<>>)

\* root = abspath(root); pats = [...]; if os.path.isfile(root): return ...
ParseAndFile ==
    /\ fpc = "start"
    /\ pats' = ParsePatterns(patterns)
    /\ IF root_is_file
          THEN /\ matched' = FileResult(root, ParsePatterns(patterns))
               /\ fpc' = "done"
          ELSE /\ matched' = <<>>
               /\ fpc' = "walk"
    /\ UNCHANGED <<root_is_file, root, patterns, recursive, listing, has_sub,
                   sub_listing, walker, wI, fI>>
    /\ UNCHANGED <<wvars, ivars, ovars, dvars, evars, hvars, uvars, lvars>>

\* walker = os.walk(root) if recursive else [next(os.walk(root))].
StartWalk ==
    /\ fpc = "walk"
    /\ walker' = IF recursive THEN WalkAll ELSE <<WalkAll[1]>>
    /\ wI' = 1 /\ fI' = 1
    /\ fpc' = "dir"
    /\ UNCHANGED <<root_is_file, root, patterns, recursive, listing, has_sub,
                   sub_listing, pats, matched>>
    /\ UNCHANGED <<wvars, ivars, ovars, dvars, evars, hvars, uvars, lvars>>

\* for f in filenames: full = join(dirpath, f); if any(...): append(full).
VisitFile ==
    /\ fpc = "dir"
    /\ wI <= Len(walker)
    /\ fI <= Len(walker[wI].filenames)
    /\ LET f == walker[wI].filenames[fI]
           full == join(walker[wI].dirpath, f) IN
          matched' = IF MatchAny(f, pats) THEN Append(matched, full) ELSE matched
    /\ fI' = fI + 1
    /\ UNCHANGED <<fpc, root_is_file, root, patterns, recursive, listing,
                   has_sub, sub_listing, pats, walker, wI>>
    /\ UNCHANGED <<wvars, ivars, ovars, dvars, evars, hvars, uvars, lvars>>

\* End of a directory: "if not recursive: break", else the next one;
\* return files after the last.
LeaveDir ==
    /\ fpc = "dir"
    /\ wI <= Len(walker)
    /\ fI > Len(walker[wI].filenames)
    /\ IF ~recursive \/ wI = Len(walker)
          THEN fpc' = "done" /\ wI' = wI /\ fI' = fI
          ELSE fpc' = fpc /\ wI' = wI + 1 /\ fI' = 1
    /\ UNCHANGED <<root_is_file, root, patterns, recursive, listing, has_sub,
                   sub_listing, pats, walker, matched>>
    /\ UNCHANGED <<wvars, ivars, ovars, dvars, evars, hvars, uvars, lvars>>

\* A directory /d with up to MaxEntries files in the order the file system
\* enumerates them and possibly a sub-directory /d/s, or one file /d/<name>.
InitFind ==
    /\ fpc = "start"
    /\ patterns \in PatternStrings
    /\ recursive \in BOOLEAN
    /\ root_is_file \in BOOLEAN
    /\ IF root_is_file
          THEN /\ root \in {join(TopDir, n) : n \in NameUniverse}
               /\ listing = <<>> /\ has_sub = FALSE /\ sub_listing = <<>>
          ELSE /\ root = TopDir
               /\ listing \in UNION {Arrangements(NameUniverse, n) :
                                       n \in 0..MaxEntries}
               /\ has_sub \in BOOLEAN
               /\ sub_listing \in (IF has_sub
                     THEN {<<>>, <<A_LXF>>, <<C_TXT>>}
                     ELSE {<<>>})
    /\ pats = <<>> /\ walker = <<>> /\ wI = 0 /\ fI = 0 /\ matched = <<>>
    /\ WorkerIdle
    /\ OrchIdle
    /\ DeviceIdle
    /\ ExportIdle
    /\ WrapIdle
    /\ DdsIdle
    /\ LaunchIdle

NextFind ==
    \/ ParseAndFile
    \/ StartWalk
    \/ VisitFile
    \/ LeaveDir

SpecFind == InitFind /\ [][NextFind]_vars

\* ======================================================================
\*  ugc_render_standalone.py: main
\* ======================================================================
\* The launcher from its argument checks on: it runs Blender with the
\* driver script, then optionally deletes the .blend and converts the image
\* (the launcher's steps of the DDS section above).  Blender's exit code is
\* 0 or one of the codes a failed run ends with.

\* Where main() goes after subprocess.run.
AfterBlender_ignores_code(rc) == "delete_blend"

AfterBlender(rc) == IF rc # 0 THEN "exited" ELSE "delete_blend"

\* if not isfile(args.inputblend): exit 2; if not isfile(driver_path):
\* exit 2.
Precheck ==
    /\ lpc = "precheck"
    /\ IF inputblend = "present" /\ driver_py
          THEN lpc' = "run" /\ launch_exit' = launch_exit
          ELSE lpc' = "exited" /\ launch_exit' = 2
    /\ UNCHANGED <<inputblend, driver_py, deleteblend, blender_rc>>
    /\ UNCHANGED <<wvars, ivars, ovars, dvars, evars, hvars, uvars, fvars>>

\* proc = subprocess.run(cmd); if proc.returncode != 0: sys.exit(it).
\* The run may have written the image.
RunBlender ==
    /\ lpc = "run"
    /\ \E rc \in {0, 1, 5, 6} :
          /\ blender_rc' = rc
          /\ lpc' = AfterBlender(rc)
          /\ launch_exit' = IF AfterBlender(rc) = "exited" THEN rc
                                                          ELSE launch_exit
    /\ image' \in {image, "present"}
    /\ UNCHANGED <<inputblend, driver_py, deleteblend>>
    /\ UNCHANGED <<upc, program, dds, linux, encoders, enc_i, converted,
                   dds_exit>>
    /\ UNCHANGED <<wvars, ivars, ovars, dvars, evars, hvars, fvars>>

\* if args.deleteblend: try: os.remove(args.inputblend) except: print;
\* then the DDS block is entered.
DeleteBlend ==
    /\ lpc = "delete_blend"
    /\ IF deleteblend
          THEN \E removed \in BOOLEAN :
                  inputblend' = IF removed THEN "deleted" ELSE inputblend
          ELSE inputblend' = inputblend
    /\ lpc' = "dds"
    /\ upc' = "start"
    /\ UNCHANGED <<driver_py, deleteblend, blender_rc, launch_exit>>
    /\ UNCHANGED <<program, dds, image, linux, encoders, enc_i, converted,
                   dds_exit>>
    /\ UNCHANGED <<wvars, ivars, ovars, dvars, evars, hvars, fvars>>

\* The exits of the DDS block (3, 4) and "Done."; sys.exit(0).
LaunchExit ==
    /\ lpc = "dds" /\ upc = "done"
    /\ launch_exit' = dds_exit
    /\ lpc' = "exited"
    /\ UNCHANGED <<inputblend, driver_py, deleteblend, blender_rc>>
    /\ UNCHANGED <<wvars, ivars, ovars, dvars, evars, hvars, uvars, fvars>>

\* The launcher consults texconv only.
InitLaunch ==
    /\ lpc = "precheck"
    /\ inputblend \in {"present", "missing"}
    /\ driver_py \in BOOLEAN
    /\ deleteblend \in BOOLEAN
    /\ blender_rc = -1 /\ launch_exit = -1
    /\ upc = "idle" /\ program = "standalone"
    /\ dds \in BOOLEAN
    /\ image \in {"present", "missing"}
    /\ linux = FALSE
    /\ encoders \in {e \in [{"texconv", "nvcompress", "compressonatorcli",
                             "wine_texconv"} -> EncoderStates] :
                        \A n \in DOMAIN e : n # "texconv" => e[n] = "missing"}
    /\ enc_i = 0 /\ converted = FALSE /\ dds_exit = -1
    /\ WorkerIdle
    /\ OrchIdle
    /\ DeviceIdle
    /\ ExportIdle
    /\ WrapIdle
    /\ FindIdle

NextLaunch ==
    \/ Precheck
    \/ RunBlender
    \/ DeleteBlend
    \/ BeginDds
    \/ TryEncoder
    \/ AfterConvert
    \/ LaunchExit

SpecLaunch == InitLaunch /\ [][NextLaunch]_vars

\* ======================================================================
\*  Properties
\* ======================================================================

IsPrefix(s, t) ==
    /\ Len(s) <= Len(t)
    /\ \A i \in 1..Len(s) : s[i] = t[i]

TraceStages == {trace[i][1] : i \in 1..Len(trace)}

\* The fatal stages in pipeline order.
FatalOrder == <<"Import", "Process", "Bake", "Export">>

C2_NoStageAfterFatal ==
    /\ [](res["Bake"] = "failed" =>
            /\ wpc = "exited" /\ exitCode = 4
            /\ "Export" \notin TraceStages
            /\ \A i \in 1..Len(started) : started[i] # "Export")
    /\ [][(\E s \in FatalStages : res[s] = "failed")
             => (trace' = trace /\ started' = started /\ calls' = calls)]_vars

\* Bake failed in a run that was given an output path.
C2_Witness ==
    /\ wpc = "exited" /\ args.output
    /\ res["Bake"] = "failed" /\ exitCode = 4

C9_ExportSkipped ==
    ~args.output =>
        /\ "Export" \notin TraceStages
        /\ \A i \in 1..Len(started) : started[i] # "Export"
        /\ (res["Import"] = "ok" /\ res["Process"] = "ok"
              /\ res["Bake"] = "ok") =>
              /\ wpc \in {"export", "saveblend", "exited"}
              /\ wpc = "exited" => (exitCode = 0 /\ res["Export"] = "skipped")
              /\ wpc # "exited" => ENABLED NextWorker

\* A run without output path that went through Bake and exited.
C9_Witness ==
    /\ wpc = "exited" /\ ~args.output
    /\ res["Bake"] = "ok" /\ res["Export"] = "skipped" /\ exitCode = 0

\* ---------------------------------------------------------------- C10
\* C10: the import resolver stops at the first call that does not raise:
\* no call follows a successful one, the resolver has then returned, and
\* when the successful call was a direct one no temporary directory was
\* ever created.
C10_StopsAtFirstSuccess ==
    /\ \A i \in 1..Len(calls) : calls[i].ok => i = Len(calls)
    /\ (\E i \in 1..Len(calls) : calls[i].ok) <=> phase = "returned"
    /\ (phase = "returned" /\ calls[Len(calls)].target = "path")
          => temp_dir = None

\* The first two calls raised, the third succeeded, and the worker ran to
\* its end without a fourth import call.
C10_Witness ==
    /\ wpc = "exited" /\ Len(calls) = 3
    /\ ~calls[1].ok /\ ~calls[2].ok /\ calls[3].ok

\* ---------------------------------------------------------------- C11
\* The conventions tried, in order, on operator o against target tg.
ConvsOf(tg, o) ==
    LET picked == SelectSeq(calls, LAMBDA c : c.target = tg /\ c.op = o)
    IN  [i \in 1..Len(picked) |-> picked[i].conv]

\* Every operator of ops was given up on target tg: its lookup raised (no
\* call) or each call convention was tried on it, and every call raised.
Exhausted(tg, ops) ==
    /\ \A k \in 1..Len(ops) : ConvsOf(tg, ops[k]) \in {<<>>, Conventions}
    /\ \A i \in 1..Len(calls) : calls[i].target = tg => ~calls[i].ok

\* C11: the archive-unwrap fallback runs only for a ".lxf" input and only
\* after every direct attempt raised; its calls go to the unpacked payload,
\* use only the two non-archive operators, each with the call conventions in
\* order, and the resolver raises "no importer worked" after the fallback
\* only when both operators were given up with all conventions tried.
C11_FallbackAfterDirect ==
    /\ (temp_dir # None \/ phase = "fallback"
          \/ \E i \in 1..Len(calls) : calls[i].target = "lxfml")
          => /\ args.ext = ".lxf"
             /\ Exhausted("path", op_ids)
    /\ \A i \in 1..Len(calls) :
          calls[i].target = "lxfml" =>
              /\ calls[i].op \in {"import_scene.importldd",
                                  "import_scene.lxfml"}
              /\ IsPrefix(ConvsOf("lxfml", calls[i].op), Conventions)
    /\ \A i \in 1..Len(calls), j \in 1..Len(calls) :
          (i < j /\ calls[i].target = "lxfml") => calls[j].target = "lxfml"
    /\ (phase = "raised" /\ temp_dir # None
           /\ import_exc.type = "RuntimeError")
          => Exhausted("lxfml", <<"import_scene.importldd",
                                  "import_scene.lxfml">>)

\* A ".lxf" run whose direct and fallback calls all raised: six fallback
\* calls against the payload, then the resolver raised.
C11_Witness ==
    /\ phase = "raised" /\ args.ext = ".lxf" /\ temp_dir = "removed"
    /\ import_exc.type = "RuntimeError"
    /\ Len(SelectSeq(calls, LAMBDA c : c.target = "lxfml")) = 6

\* ---------------------------------------------------------------- C21
\* The direct attempts (lookups and calls on the input path), in order.
DirectAttempts == SelectSeq(attempts, LAMBDA a : a.target = "path"
                                                    /\ a.op # "unpack")

\* The priority order of the direct operators for this run.
PriorityOrder ==
    (IF args.import_op THEN <<"override">> ELSE <<>>)
    \o <<"import_scene.importldd",
         IF args.ext = ".lxf" THEN "import_scene.lxf"
         ELSE "import_scene.lxfml">>

\* The position of x in the sequence q (0 when absent).
IndexOf(q, x) ==
    IF \E k \in 1..Len(q) : q[k] = x
       THEN CHOOSE k \in 1..Len(q) : q[k] = x
       ELSE 0

\* The step every attempt of one operator takes: lookup, then the three
\* call conventions.
StepOrder == <<"lookup", "filepath", "path", "directory_files">>

\* C21: direct attempts follow the priority order (override first when
\* given, then import_scene.importldd, then the operator named after the
\* extension), every operator is resolved once and then called with
\* filepath=, path=, directory+files in that order, and an operator is
\* turned to only when the one before it was given up: its lookup raised
\* or its third convention raised.
C21_DirectOrder ==
    LET D == DirectAttempts
    IN  /\ \A i \in 1..Len(D) :
              /\ IndexOf(PriorityOrder, D[i].op) > 0
              /\ IndexOf(StepOrder, D[i].conv) > 0
        /\ Len(D) > 0 =>
              D[1].op = PriorityOrder[1] /\ D[1].conv = "lookup"
        /\ \A i \in 1..(Len(D) - 1) :
              LET a == D[i]
                  b == D[i + 1]
                  given_up == \/ a.conv = "lookup" /\ ~a.ok
                              \/ a.conv = "directory_files" /\ ~a.ok
              IN  IF given_up
                     THEN /\ IndexOf(PriorityOrder, b.op)
                                = IndexOf(PriorityOrder, a.op) + 1
                          /\ b.conv = "lookup"
                     ELSE /\ b.op = a.op
                          /\ IndexOf(StepOrder, b.conv)
                                = IndexOf(StepOrder, a.conv) + 1
                          /\ (a.conv = "lookup" \/ ~a.ok)

\* A run with an override in which the override and the plugin importer
\* were called with all three conventions and the last operator was called.
C21_Witness ==
    /\ args.import_op
    /\ ConvsOf("path", "override") = Conventions
    /\ ConvsOf("path", "import_scene.importldd") = Conventions
    /\ \E i \in 1..Len(calls) :
          calls[i].target = "path" /\ calls[i].op = "import_scene.lxfml"

\* ---------------------------------------------------------------- C22
\* The fallback attempts (lookups and calls on the unpacked payload).
FallbackAttempts == SelectSeq(attempts, LAMBDA a : a.target = "lxfml")

\* The fallback loop ran to its end without a success.
FallbackExhausted ==
    /\ phase = "raised" /\ temp_dir # None
    /\ import_exc.type = "RuntimeError"

\* C22 as stated: when every direct candidate failed on an archive input
\* and the fallback ran to its end, every candidate of the direct list,
\* the caller's override included, was attempted against the payload.
C22_AllRetried ==
    FallbackExhausted =>
        \A k \in 1..Len(op_ids) :
            \E i \in 1..Len(FallbackAttempts) :
                FallbackAttempts[i].op = op_ids[k]

\* C22 amended: the fallback attempts import_scene.importldd and then
\* import_scene.lxfml against the payload and nothing else: neither a
\* caller override nor import_scene.lxf is ever attempted on the payload,
\* and a fallback that ran to its end resolved exactly these two operators.
C22_OnlyTwoRetried ==
    /\ \A i \in 1..Len(FallbackAttempts) :
          FallbackAttempts[i].op \in {"import_scene.importldd",
                                      "import_scene.lxfml"}
    /\ FallbackExhausted =>
          SelectSeq(FallbackAttempts, LAMBDA a : a.conv = "lookup")
             \in {<<[op |-> "import_scene.importldd", conv |-> "lookup",
                     target |-> "lxfml", ok |-> b1],
                    [op |-> "import_scene.lxfml", conv |-> "lookup",
                     target |-> "lxfml", ok |-> b2]>> :
                     b1 \in BOOLEAN, b2 \in BOOLEAN}

\* An archive input with an override: the override was called on the
\* input path, the fallback ran to its end with six calls on the payload.
C22_Witness ==
    /\ FallbackExhausted /\ args.import_op /\ args.ext = ".lxf"
    /\ ConvsOf("path", "override") = Conventions
    /\ Len(SelectSeq(FallbackAttempts, LAMBDA a : a.conv # "lookup")) = 6

\* ---------------------------------------------------------------- C23
\* The failed attempts so far, the unpack step included.
Failures == SelectSeq(attempts, LAMBDA a : ~a.ok)

\* C23: the resolver returns only right after a call that did not raise;
\* when it raises no call succeeded and the error raised is the most
\* recent one: the unpack step's own error when unpacking failed, else a
\* RuntimeError that carries the error of the most recent failed lookup or
\* call.  Once every direct attempt has failed the resolver can only go on
\* to the fallback or raise.
C23_RaisesWithLastError ==
    /\ phase = "returned" =>
          /\ Len(calls) > 0 /\ calls[Len(calls)].ok
          /\ attempts[Len(attempts)].ok
          /\ attempts[Len(attempts)].conv \in Range(Conventions)
    /\ phase = "raised" =>
          /\ \A i \in 1..Len(calls) : ~calls[i].ok
          /\ Len(Failures) > 0
          /\ LET f == Failures[Len(Failures)]
             IN  IF f.op = "unpack"
                    THEN /\ import_exc.type # "RuntimeError"
                         /\ f = attempts[Len(attempts)]
                    ELSE /\ import_exc.type = "RuntimeError"
                         /\ import_exc.last = [op |-> f.op, conv |-> f.conv,
                                               target |-> f.target]
    /\ (wpc = "import" /\ phase \in {"direct", "fallback"}
          /\ (\A i \in 1..Len(calls) : ~calls[i].ok))
          => ENABLED (DirectLookup \/ DirectCall \/ ArchiveUnpack
                        \/ FallbackLookup \/ FallbackCall \/ RaiseNoImport)

\* Every call on the payload raised except that the last operator could not
\* even be resolved: the error carried is that lookup's.
C23_Witness ==
    /\ phase = "raised" /\ import_exc.type = "RuntimeError"
    /\ import_exc.last = [op |-> "import_scene.lxfml", conv |-> "lookup",
                          target |-> "lxfml"]
    /\ Len(calls) >= 6

\* ---------------------------------------------------------------- C12
\* C12: whenever the resolver has returned or raised, a temporary unpack
\* directory it created no longer exists; the directory exists only while
\* the fallback loop is running.
C12_TempDirRemoved ==
    /\ phase \in {"returned", "raised"} => temp_dir \in {None, "removed"}
    /\ temp_dir = "exists" => (wpc = "import" /\ phase = "fallback")

\* The fallback succeeded on the payload and the directory is gone.
C12_Witness ==
    /\ phase = "returned" /\ temp_dir = "removed"
    /\ calls[Len(calls)].target = "lxfml" /\ calls[Len(calls)].ok

\* ---------------------------------------------------------------- C26
\* The positions of the backstop in the trace.
BackstopAt ==
    {i \in 1..Len(trace) : trace[i][1] = "VColBackstop"}

\* C26: the vertex-color backstop is attempted exactly when Process has
\* succeeded; whether it raised or not the worker goes on to Bake (the
\* next host call is Bake's, and until then Bake is what is enabled), and
\* the exit code is that of the fatal stages alone.
C26_BackstopNonFatal ==
    /\ res["VColBackstop"] # "none" =>
          /\ res["Process"] = "ok"
          /\ Cardinality(BackstopAt) = 1
          /\ \A i \in BackstopAt :
                /\ i > 1 /\ trace[i - 1] = <<"Process", "call_op">>
                /\ i < Len(trace) => trace[i + 1] = <<"Bake", "call_op">>
                /\ i = Len(trace) => (wpc = "bake" /\ ENABLED Bake)
          /\ wpc = "exited" =>
                exitCode = IF res["Bake"] = "failed" THEN 4
                           ELSE IF res["Export"] = "failed" THEN 5
                           ELSE 0
    /\ (res["Process"] = "ok" /\ wpc # "vcols") =>
          res["VColBackstop"] # "none"

\* The backstop raised and the worker still ran Bake and exited 0.
C26_Witness ==
    /\ res["VColBackstop"] = "failed" /\ res["Bake"] = "ok"
    /\ wpc = "exited" /\ exitCode = 0

\* ---------------------------------------------------------------- C27
\* C27: the snapshot save is attempted only when it was requested and
\* Import, Process and Bake succeeded and Export succeeded or was skipped;
\* it is the last host call of the run, and whether it succeeded or raised
\* the worker exits with code 0.
C27_SaveBlendNonFatal ==
    res["SaveBlend"] # "none" =>
        /\ args.saveblend
        /\ res["Import"] = "ok" /\ res["Process"] = "ok"
        /\ res["Bake"] = "ok"
        /\ res["Export"] = (IF args.output THEN "ok" ELSE "skipped")
        /\ trace[Len(trace)] = <<"SaveBlend", "save_mainfile">>
        /\ Cardinality({i \in 1..Len(trace) : trace[i][1] = "SaveBlend"}) = 1
        /\ wpc = "exited" /\ exitCode = 0

\* The snapshot save raised after a successful export; exit code 0.
C27_Witness ==
    /\ res["SaveBlend"] = "failed" /\ res["Export"] = "ok"
    /\ wpc = "exited" /\ exitCode = 0

\* ---------------------------------------------------------------- C28
\* C28: export_scene.nif is invoked at most twice, first with the scale
\* keyword; a second invocation, without the keyword, follows exactly when
\* the first raised TypeError; the worker leaves the stage with exit code 5
\* when the operator is missing, when the first invocation raised any other
\* error, or when the retry raised, and otherwise goes on; whatever the
\* preparation steps did, none of them ends the stage.
C28_ExportRetry ==
    /\ Len(nif_calls) <= 2
    /\ Len(nif_calls) >= 1 => nif_calls[1].scale_correction
    /\ Len(nif_calls) = 2 =>
          /\ nif_calls[1].outcome = "TypeError"
          /\ ~nif_calls[2].scale_correction
          /\ prep[Len(prep)][1] = "scene.scale_correction"
    /\ (Len(nif_calls) = 1 /\ nif_calls[1].outcome = "TypeError")
          => epc \in {"scale_prop", "retry"}
    /\ epc = "exited" =>
          /\ export_exit = 5
          /\ \/ nif_calls = <<>> /\ Len(prep) = 1
             \/ Len(nif_calls) = 1 /\ nif_calls[1].outcome = "error"
             \/ Len(nif_calls) = 2 /\ nif_calls[2].outcome # "ok"
    /\ epc = "saveblend" =>
          /\ export_exit = -1
          /\ nif_calls[Len(nif_calls)].outcome = "ok"
    /\ epc \notin {"exited", "saveblend"} => ENABLED NextExport
    /\ (epc \in {"lookup", "first_call", "retry"}) =>
          (export_exit = -1 /\ Len(prep) >= 1)

\* Every preparation step failed, the first invocation rejected the
\* keyword and the retry succeeded.
C28_Witness ==
    /\ epc = "saveblend" /\ Len(nif_calls) = 2
    /\ prep = << <<"set_niftools_game_to_lu", "raises">>,
                 <<"save_all_modified", "raises">>,
                 <<"scene.scale_correction", "raises">> >>

\* ---------------------------------------------------------------- C29
\* The runs of the original that changed something.
EffectRuns ==
    {i \in 1..Len(orig_runs) :
        orig_runs[i].outcome \in {"returns", "raises_after_effects"}}

\* C29: a call of a wrapped method runs the original exactly once, with
\* the synthetic context iff the incoming context has no area, and the
\* original's side effects are never executed a second time.
C29_OrigRunsOnce ==
    /\ Cardinality(EffectRuns) <= 1
    /\ Len(orig_runs) <= 1
    /\ hpc \in {"returned", "raised"} =>
          /\ Len(orig_runs) = 1
          /\ orig_runs[1].ctx = (IF context_area THEN "incoming" ELSE "proxy")

\* ---------------------------------------------------------------- C30
\* Some encoder the program tries would write the .dds.
SomeEncoderWorks ==
    \E i \in 1..Len(EncoderOrder(program)) :
        Seen(EncoderOrder(program)[i]) = "ok"

\* C30: in the driver and in the launcher the rendered image is deleted
\* only after the conversion reported success; when the conversion failed
\* or no encoder was found the image is still in place at exit.
C30_DeleteOnlyAfterSuccess ==
    /\ image = "deleted" =>
          /\ upc = "done" /\ dds /\ converted
          /\ SomeEncoderWorks
    /\ (upc = "done" /\ dds /\ dds_exit # 3 /\ ~SomeEncoderWorks) =>
          /\ ~converted
          /\ image = "present"

\* The driver deleted the image after its third encoder wrote the .dds,
\* the first two having failed.
C30_Witness ==
    /\ upc = "done" /\ dds /\ program = "driver"
    /\ image = "deleted" /\ enc_i = 3
    /\ Seen("texconv") # "ok" /\ Seen("nvcompress") # "ok"

\* ---------------------------------------------------------------- C24
\* What each pattern string of PatternStrings asks for, written out by
\* hand: a name ending in a text, a name equal to a text, or one character
\* followed by a text.
PatternMeaning(str) ==
    CASE str = P_DEFAULT ->
            {[kind |-> "ends", text |-> <<".", "l", "x", "f">>],
             [kind |-> "ends", text |-> <<".", "l", "x", "f", "m", "l">>]}
      [] str = P_EMPTY -> {}
      [] str = P_BLANK -> {}
      [] str = P_UPPER -> {[kind |-> "ends", text |-> <<".", "l", "x", "f">>]}
      [] str = P_SPACED ->
            {[kind |-> "ends", text |-> <<".", "l", "x", "f">>],
             [kind |-> "ends", text |-> <<".", "t", "x", "t">>]}
      [] str = P_NAME -> {[kind |-> "is", text |-> <<"a", ".", "l", "x", "f">>]}
      [] str = P_ONECHAR ->
            {[kind |-> "one_then", text |-> <<".", "l", "x", "f">>]}

Satisfies(x, d) ==
    CASE d.kind = "ends" ->
            /\ Len(x) >= Len(d.text)
            /\ SubSeq(x, Len(x) - Len(d.text) + 1, Len(x)) = d.text
      [] d.kind = "is" -> x = d.text
      [] d.kind = "one_then" ->
            /\ Len(x) = Len(d.text) + 1
            /\ SubSeq(x, 2, Len(x)) = d.text

\* The names of NameUniverse with case folded.
FoldedName(n) == IF n = UPPER_A_LXF THEN A_LXF ELSE n

Wanted(x) == \E d \in PatternMeaning(patterns) : Satisfies(x, d)

\* The files directly in the directory whose name some pattern asks for.
ExpectedDirect ==
    {join(TopDir, listing[i]) :
        i \in {k \in 1..Len(listing) : Wanted(FoldedName(listing[k]))}}

MatchedSet == {matched[i] : i \in 1..Len(matched)}

\* C24: non-recursive discovery over a directory returns exactly the files
\* directly in it whose name matches a pattern of the semicolon-separated
\* set, case-insensitively and whatever the enumeration order; a.lxf,
\* b.lxfml, c.txt under the default patterns give a.lxf and b.lxfml.
C24_NonRecursiveExact ==
    (fpc = "done" /\ ~root_is_file /\ ~recursive) =>
        /\ MatchedSet = ExpectedDirect
        /\ Len(matched) = Cardinality(ExpectedDirect)
        /\ ( /\ {listing[i] : i \in 1..Len(listing)} = {A_LXF, B_LXFML, C_TXT}
             /\ patterns = P_DEFAULT )
           => MatchedSet = {join(TopDir, A_LXF), join(TopDir, B_LXFML)}

\* The directory enumerated as c.txt, b.lxfml, a.lxf, with a matching file
\* in its sub-directory that is not returned.
C24_Witness ==
    /\ fpc = "done" /\ ~root_is_file /\ ~recursive
    /\ listing = <<C_TXT, B_LXFML, A_LXF>>
    /\ patterns = P_DEFAULT
    /\ has_sub /\ sub_listing = <<A_LXF>>
    /\ matched = <<join(TopDir, B_LXFML), join(TopDir, A_LXF)>>

\* ---------------------------------------------------------------- C25
\* The single file's path with case folded.
FoldedRoot ==
    join(TopDir,
         FoldedName(CHOOSE n \in NameUniverse : root = join(TopDir, n)))

\* C25: with a single-file input discovery returns that file when the
\* pattern set is empty (an empty pattern string included) or the file
\* matches a pattern, and nothing when the set is non-empty and no pattern
\* matches.  The file is matched by its path.
C25_SingleFile ==
    (fpc = "done" /\ root_is_file) =>
        /\ matched = (IF PatternMeaning(patterns) = {} \/ Wanted(FoldedRoot)
                         THEN <<root>> ELSE <<>>)
        /\ patterns = P_EMPTY => matched = <<root>>

\* c.txt alone, which no pattern would match, returned under the empty
\* pattern string.
C25_Witness ==
    /\ fpc = "done" /\ root_is_file
    /\ root = join(TopDir, C_TXT)
    /\ patterns = P_EMPTY
    /\ matched = <<root>>

\* ---------------------------------------------------------------- C31
\* C31: the launcher deletes the input .blend and starts the DDS conversion
\* only after Blender exited with code 0; when Blender exits nonzero the
\* launcher exits with that code, the .blend is still there and the DDS
\* block was never entered.
C31_OnlyAfterRenderOk ==
    /\ inputblend = "deleted" => blender_rc = 0 /\ deleteblend
    /\ (upc # "idle" \/ image = "deleted" \/ converted) => blender_rc = 0
    /\ (lpc = "exited" /\ blender_rc > 0) =>
          /\ launch_exit = blender_rc
          /\ inputblend = "present"
          /\ upc = "idle" /\ image # "deleted" /\ ~converted

\* A successful render after which the .blend and the converted image's
\* source were both deleted.
C31_Witness ==
    /\ lpc = "exited" /\ blender_rc = 0 /\ launch_exit = 0
    /\ deleteblend /\ inputblend = "deleted"
    /\ dds /\ converted /\ image = "deleted"

\* ---------------------------------------------------------------- C32
\* C32: when the input path is not an existing regular file at start the
\* worker exits with code 2 before any stage runs: no stage is started, no
\* host operator is looked up or called, no stage has a result.
C32_MissingInputExits2 ==
    ~args.inputIsFile =>
        /\ wpc \in {"check_input", "exited"}
        /\ wpc = "exited" => exitCode = 2
        /\ started = <<>> /\ trace = <<>>
        /\ attempts = <<>> /\ calls = <<>>
        /\ \A st \in Stages : res[st] = "none"
        /\ actual = None /\ gpu_flags = None

\* The worker has exited on a missing input although an output and a
\* blend save were asked for.
C32_Witness ==
    /\ ~args.inputIsFile /\ wpc = "exited" /\ exitCode = 2
    /\ args.output /\ args.saveblend

\* ---------------------------------------------------------------- C33
\* C33: the orchestrator prints its aggregate line and exits only after
\* every worker it submitted to the pool in that run has terminated: at
\* exit no task is queued or running, whatever the pool width and the
\* order in which the workers finished.
C33_ExitAfterAllWorkers ==
    (opc = "done" \/ orcExit # -1) =>
        /\ \A i \in 1..Len(tasks) : tasks[i].st = "done"
        /\ Running = {} /\ Queued = {}

\* The orchestrator has exited with a pool of width one after two files,
\* more tasks having been submitted than it collected results for.
C33_Witness ==
    /\ opc = "done" /\ orcExit = 2
    /\ oargs.jobs = 0
    /\ Len(files) = 2 /\ Len(tasks) > Cardinality(collected)
    /\ \A i \in 1..Len(tasks) : tasks[i].st = "done"

\* ---------------------------------------------------------------- C13
\* C13: device setup never fails the pipeline: no host error escapes the
\* selector, and once the selector is left an effective device has been
\* returned, so that main() goes on to Import.
C13_SetupNeverFails ==
    /\ dpc # "raised"
    /\ dpc \in {"flags", "done"} => returned \in {"cpu", "cuda", "optix"}

\* ---------------------------------------------------------------- C14
\* No entry of the inventory is of backend family b.
NoneOfType(devs, b) == \A i \in 1..Len(devs) : devs[i].type # b

C15_AutoKeepsMarks ==
    arg_device = "auto" => devices = saved_devices

\* auto returned optix while an unmarked CUDA device sat in the inventory.
C15_Witness ==
    /\ arg_device = "auto" /\ dpc = "done" /\ returned = "optix"
    /\ \E i \in 1..Len(devices) :
          devices[i].type = "CUDA" /\ ~devices[i].use

\* ---------------------------------------------------------------- C16
\* The marking loop of an explicit request has run.
Marked == arg_device # "auto" /\ dpc \in {"choose", "flags", "done"}
             /\ backend # None

\* C16 as stated: after an explicit request the devices marked in use are
\* exactly those of the requested backend family and the CPU devices.
C16_ExactlyRequested ==
    Marked =>
        \A i \in 1..Len(devices) :
            devices[i].use <=>
                devices[i].type \in {"CPU", BackendOf(arg_device)}

\* C16 amended: the marking loop only adds marks.  A device marked before
\* stays marked, a device is newly marked only if it is a CPU device or of
\* the backend family in effect, a device of another GPU backend keeps the
\* mark it had, and when the requested GPU device is returned at least one
\* device of that family is marked.
C16_MarksOnlyAdded ==
    Marked =>
        /\ Len(devices) = Len(saved_devices)
        /\ \A i \in 1..Len(devices) :
              /\ devices[i].type = saved_devices[i].type
              /\ saved_devices[i].use => devices[i].use
              /\ (devices[i].use /\ ~saved_devices[i].use)
                    => devices[i].type \in {"CPU", backend}
              /\ devices[i].type \notin {"CPU", backend}
                    => devices[i].use = saved_devices[i].use
        /\ (returned \in {"cuda", "optix"}) =>
              \E i \in 1..Len(devices) :
                  devices[i].type = BackendOf(arg_device) /\ devices[i].use

\* cuda was requested and returned: a CUDA device was newly marked and an
\* OptiX device marked before is still marked.
C16_Witness ==
    /\ dpc = "done" /\ arg_device = "cuda" /\ returned = "cuda"
    /\ \E i \in 1..Len(devices) :
          /\ devices[i].type = "CUDA"
          /\ devices[i].use /\ ~saved_devices[i].use
    /\ \E i \in 1..Len(devices) :
          /\ devices[i].type = "OPTIX"
          /\ devices[i].use /\ saved_devices[i].use

\* ---------------------------------------------------------------- C3
Spawned(f) ==
    {i \in 1..Len(tasks) : tasks[i].in_path = f /\ tasks[i].st # "queued"}

\* C3: exactly one worker process is spawned per discovered file.
C3_OneWorkerPerFile ==
    /\ \A k \in 1..Len(files) : Cardinality(Spawned(files[k])) <= 1
    /\ (opc = "done" /\ files # <<>>) =>
          \A k \in 1..Len(files) : Cardinality(Spawned(files[k])) = 1

\* ---------------------------------------------------------------- C4
LogPaths == {l.path : l \in logs}

\* C4: after a run, for every job exactly one of its .ok.log / .err.log
\* files exists in the output directory.
C4_ExactlyOneLog ==
    (opc = "done" /\ files # <<>>) =>
        \A i \in 1..Len(tasks) :
            (log_path(tasks[i].out_path, tasks[i].pass_output, TRUE)
                 \in LogPaths)
            # (log_path(tasks[i].out_path, tasks[i].pass_output, FALSE)
                 \in LogPaths)

\* ---------------------------------------------------------------- C5
\* The task whose result main() collects for the k-th matched file.
FutOf(k) == CHOOSE i \in Range(futs) : tasks[i].in_path = files[k]

\* C5: at the end of a run the collected futures are one per matched file,
\* ok is the number of matched files whose collected worker exited 0, fail
\* the number whose collected worker exited nonzero, and ok + fail is the
\* number of matched files.
C5_Tally ==
    (opc = "done" /\ files # <<>>) =>
        /\ \A k \in 1..Len(files) :
              Cardinality({i \in Range(futs) :
                              tasks[i].in_path = files[k]}) = 1
        /\ ok = Cardinality({k \in 1..Len(files) :
                                tasks[FutOf(k)].returncode = 0})
        /\ fail = Cardinality({k \in 1..Len(files) :
                                  tasks[FutOf(k)].returncode # 0})
        /\ ok + fail = Len(files)

\* Two files on a pool of width two, one worker failing.
C5_Witness ==
    /\ opc = "done" /\ Len(files) = 2 /\ oargs.jobs = 2
    /\ ok = 1 /\ fail = 1

\* ---------------------------------------------------------------- C6
\* C6: the orchestrator exits 0 iff files were matched and every collected
\* job succeeded, 1 iff no file matched, 2 iff a collected job failed.
C6_OrchExit ==
    opc = "done" =>
        /\ (orcExit = 0) <=>
              (files # <<>> /\ \A i \in Range(futs) : tasks[i].returncode = 0)
        /\ (orcExit = 1) <=> (files = <<>>)
        /\ (orcExit = 2) <=>
              (\E i \in Range(futs) : tasks[i].returncode # 0)

\* A run that exits 2 although one of its jobs succeeded.
C6_Witness ==
    /\ opc = "done" /\ orcExit = 2 /\ ok >= 1

\* ---------------------------------------------------------------- C7
\* C7: no two jobs of a run are given the same output file path, and no two
\* jobs write the same log file path.
C7_NoSharedPaths ==
    \A i \in 1..Len(tasks), j \in 1..Len(tasks) :
        i # j =>
            /\ (Truthy(tasks[i].pass_output) /\ Truthy(tasks[j].pass_output))
                  => tasks[i].out_path # tasks[j].out_path
            /\ (tasks[i].st = "done" /\ tasks[j].st = "done") =>
                  log_path(tasks[i].out_path, tasks[i].pass_output,
                           Success(tasks[i].returncode))
                  # log_path(tasks[j].out_path, tasks[j].pass_output,
                             Success(tasks[j].returncode))

\* ---------------------------------------------------------------- C17
Done == {i \in 1..Len(tasks) : tasks[i].st = "done"}

\* The suffix of the log file task i was classified into.
SuffixOf(i) ==
    IF log_path(tasks[i].out_path, tasks[i].pass_output, TRUE)
          = log_path(tasks[i].out_path, tasks[i].pass_output,
                     tasks[i].success)
       THEN DotOkLog ELSE DotErrLog

\* C17: for every returned run_one call success is (exit code = 0), the
\* log it wrote carries the suffix of that classification, and two calls
\* whose workers exited with the same code have the same success value and
\* the same log suffix whatever the workers printed.
C17_ClassifiedByExitCode ==
    /\ \A i \in Done :
          /\ tasks[i].success <=> (tasks[i].returncode = 0)
          /\ SuffixOf(i) = IF tasks[i].returncode = 0 THEN DotOkLog
                           ELSE DotErrLog
    /\ \A l \in logs :
          l.path = log_path(tasks[l.by].out_path, tasks[l.by].pass_output,
                            l.code = 0)
    /\ \A i \in Done, j \in Done :
          tasks[i].returncode = tasks[j].returncode =>
              /\ tasks[i].success = tasks[j].success
              /\ SuffixOf(i) = SuffixOf(j)

\* Two workers exited 0, one silent and one with a traceback on stderr and
\* a success banner missing from stdout; both count as success.
C17_Witness ==
    \E i \in Done, j \in Done :
        /\ tasks[i].returncode = 0 /\ tasks[j].returncode = 0
        /\ tasks[i].stderr = "" /\ tasks[j].stderr = "Traceback"
        /\ tasks[i].stdout # tasks[j].stdout
        /\ tasks[i].success /\ tasks[j].success

\* ---------------------------------------------------------------- C18
\* C18: after any sequence of runs over the same inputs and output
\* directory, every log file present was written by the latest run.
C18_LogsFromLatestRun ==
    (opc = "done" /\ files # <<>>) => \A l \in logs : l.run = run

\* ---------------------------------------------------------------- C19
\* C19: every worker process that has exited, whatever its exit code, has
\* its log file in the output directory, and a job's result is folded into
\* the tally only after its worker exited, hence after the log was written.
C19_LogBeforeTally ==
    /\ \A i \in Done :
          log_path(tasks[i].out_path, tasks[i].pass_output,
                   tasks[i].returncode = 0) \in LogPaths
    /\ collected \subseteq Done
    /\ ok + fail = Cardinality(collected)

\* Both kinds of job were tallied with their own log in place.
C19_Witness ==
    /\ \E i \in collected, l \in logs :
          tasks[i].returncode = 0 /\ l.by = i /\ l.code = 0
    /\ \E i \in collected, l \in logs :
          tasks[i].returncode # 0 /\ l.by = i /\ l.code # 0

\* ---------------------------------------------------------------- C20
\* C20: when discovery matches nothing the orchestrator neither creates the
\* output directory nor submits or spawns any worker nor writes any log,
\* and it exits with code 1.
C20_NoMatchNoWork ==
    files = <<>> =>
        /\ ~out_dir
        /\ tasks = <<>> /\ futs = <<>> /\ logs = {}
        /\ opc \in {"start", "done"}
        /\ opc = "done" => orcExit = 1

\* The run over an empty match has ended.
C20_Witness ==
    /\ files = <<>> /\ opc = "done" /\ orcExit = 1 /\ ~out_dir

====
